---- MODULE Spec2Model ----
(***************************************************************************)
(* Double-entry bookkeeping engine of arthsutra (backend/accounting).      *)
(*                                                                         *)
(* Money is a Python float in the source.  It is modelled as a binary      *)
(* floating-point number with a Precision-bit significand whose unit in    *)
(* the last place is never smaller than 1: every value is an integer       *)
(* number of units, sums and differences are rounded to nearest, ties to   *)
(* even, exactly as IEEE-754 does with 53 bits.  One unit stands for       *)
(* 0.00025, so the 0.001 tolerance of the balance check is Tol = 4 units.  *)
(***************************************************************************)
EXTENDS Integers, Sequences, FiniteSets, TLC

(* ---------------------------------------------------------------------- *)
(* Python values                                                          *)
(* ---------------------------------------------------------------------- *)

\* Optional[int] = None for an account id
NoneId == -1
\* Optional[str] = None for a label, a category or a counterparty
NoneStr == "<None>"

\* Python truthiness of an Optional[int]: None and 0 are falsy
TruthyId(x) == x # NoneId /\ x # 0
\* Python truthiness of an Optional[str]: None and "" are falsy
TruthyStr(s) == s # NoneStr /\ s # ""

(* ---------------------------------------------------------------------- *)
(* Floating point                                                         *)
(* ---------------------------------------------------------------------- *)

\* number of significand bits of the modelled float
Precision == 3
Mant == 2 ^ Precision

RECURSIVE RoundMag(_, _)
\* round the magnitude x >= 0 to Precision significant bits, ties to even
RoundMag(x, ulp) ==
    IF x <= Mant * ulp
    THEN LET q == x \div ulp
             r == x % ulp
         IN  IF 2 * r < ulp THEN q * ulp
             ELSE IF 2 * r > ulp THEN (q + 1) * ulp
             ELSE IF q % 2 = 0 THEN q * ulp ELSE (q + 1) * ulp
    ELSE RoundMag(x, 2 * ulp)

\* the float nearest to the exact value x
Fl(x) == IF x < 0 THEN 0 - RoundMag(0 - x, 1) ELSE RoundMag(x, 1)

FAdd(a, b) == Fl(a + b)
FSub(a, b) == Fl(a - b)
FAbs(a) == IF a < 0 THEN 0 - a ELSE a

RECURSIVE SumFrom(_, _)
\* Python sum(): left-to-right float additions starting from 0
SumFrom(acc, s) == IF s = <<>> THEN acc ELSE SumFrom(FAdd(acc, Head(s)), Tail(s))
PySum(s) == SumFrom(0, s)

RECURSIVE ExactSum(_)
\* the mathematical sum of the same numbers (no rounding)
ExactSum(s) == IF s = <<>> THEN 0 ELSE Head(s) + ExactSum(Tail(s))

\* 0.001 in units of 0.00025
Tol == 4

(* ---------------------------------------------------------------------- *)
(* enums.py                                                               *)
(* ---------------------------------------------------------------------- *)

TransactionType == {"income", "expense", "transfer"}

IncomeNatures == {"salary", "business_income", "investment_income",
                  "gift_received", "refund", "other_income"}
ExpenseNatures == {"purchase", "subscription", "bill_payment",
                   "reimbursement_paid", "gift_given", "other_expense"}
TransferNatures == {"internal_transfer", "cc_bill_payment",
                    "reimbursement_received", "loan_given", "loan_received",
                    "loan_repaid", "adjustment"}
TransactionNature == IncomeNatures \cup ExpenseNatures \cup TransferNatures

AccountingType == {"asset", "liability", "receivable", "payable"}

AssetLabels == {"savings", "current", "salary", "NRO", "NRE", "FD", "RD",
                "PPF", "EPF", "NPS", "stocks", "mutual_funds", "bonds",
                "crypto", "wallet", "cash", "other"}
LiabilityLabels == {"credit_card", "overdraft"}

\* mutant: "overdraft" missing from the table, so it takes the default
infer_accounting_type_OverdraftMissing(account_type) ==
    IF account_type = "credit_card" THEN "liability"
    ELSE IF account_type = "receivable" THEN "receivable"
    ELSE IF account_type = "payable" THEN "payable"
    ELSE "asset"

\* ACCOUNT_TYPE_TO_ACCOUNTING.get(account_type, AccountingType.ASSET)
infer_accounting_type(account_type) ==
    IF account_type \in AssetLabels THEN "asset"
    ELSE IF account_type \in LiabilityLabels THEN "liability"
    ELSE IF account_type = "receivable" THEN "receivable"
    ELSE IF account_type = "payable" THEN "payable"
    ELSE "asset"

\* mutant: "refund" listed under EXPENSE as well as under INCOME
VALID_NATURE_FOR_TYPE_RefundTwice(txn_type) ==
    IF txn_type = "income" THEN IncomeNatures
    ELSE IF txn_type = "expense" THEN ExpenseNatures \cup {"refund"}
    ELSE IF txn_type = "transfer" THEN TransferNatures
    ELSE {}

\* mutant: "refund" listed under TRANSFER as well as under INCOME
VALID_NATURE_FOR_TYPE_RefundTransfer(txn_type) ==
    IF txn_type = "income" THEN IncomeNatures
    ELSE IF txn_type = "expense" THEN ExpenseNatures
    ELSE IF txn_type = "transfer" THEN TransferNatures \cup {"refund"}
    ELSE {}

VALID_NATURE_FOR_TYPE(txn_type) ==
    IF txn_type = "income" THEN IncomeNatures
    ELSE IF txn_type = "expense" THEN ExpenseNatures
    ELSE IF txn_type = "transfer" THEN TransferNatures
    ELSE {}

is_valid_nature_for_type(txn_type, txn_nature) ==
    txn_nature \in VALID_NATURE_FOR_TYPE(txn_type)

(* ---------------------------------------------------------------------- *)
(* ledger.py                                                              *)
(* ---------------------------------------------------------------------- *)

\* LedgerEntryDTO; entry_date and description are carried through unread
LedgerEntryDTO(txn_id, acct_id, debit, credit) ==
    [transaction_id |-> txn_id, account_id |-> acct_id,
     debit |-> debit, credit |-> credit]

\* "x or 0" on an Optional[int]
OrZero(x) == IF TruthyId(x) THEN x ELSE 0

\* mutant: the virtual entry is built with its two ids swapped
income_entries_SwappedIds(txn_id, amount, to_account_id) ==
    << LedgerEntryDTO(txn_id, OrZero(to_account_id), amount, 0),
       LedgerEntryDTO(0, txn_id, 0, amount) >>

income_entries(txn_id, amount, to_account_id) ==
    << LedgerEntryDTO(txn_id, OrZero(to_account_id), amount, 0),
       LedgerEntryDTO(txn_id, 0, 0, amount) >>

\* mutant: the expense booked like an income (real account debited)
expense_entries_RealDebited(txn_id, amount, from_account_id) ==
    << LedgerEntryDTO(txn_id, OrZero(from_account_id), amount, 0),
       LedgerEntryDTO(txn_id, 0, 0, amount) >>

expense_entries(txn_id, amount, from_account_id) ==
    << LedgerEntryDTO(txn_id, 0, amount, 0),
       LedgerEntryDTO(txn_id, OrZero(from_account_id), 0, amount) >>

\* mutant: a card payment treated like a plain transfer (destination increases)
get_transfer_impacts_CcIncreases(nature, from_acct, to_acct) ==
    IF nature = "loan_received" THEN <<TRUE, TRUE>>
    ELSE IF nature = "loan_repaid" /\ from_acct # "receivable" THEN <<FALSE, FALSE>>
    ELSE <<FALSE, TRUE>>

\* mutant: the direction of a repayment read off the destination class
get_transfer_impacts_RepaidByTo(nature, from_acct, to_acct) ==
    IF nature = "cc_bill_payment" THEN <<FALSE, FALSE>>
    ELSE IF nature = "loan_received" THEN <<TRUE, TRUE>>
    ELSE IF nature = "loan_repaid" /\ to_acct # "asset" THEN <<FALSE, FALSE>>
    ELSE <<FALSE, TRUE>>

\* mutant: my own repayment resolved like a loan received (both sides increase)
get_transfer_impacts_RepaidIncreases(nature, from_acct, to_acct) ==
    IF nature = "cc_bill_payment" THEN <<FALSE, FALSE>>
    ELSE IF nature = "loan_received" THEN <<TRUE, TRUE>>
    ELSE IF nature = "loan_repaid" /\ from_acct # "receivable" THEN <<TRUE, TRUE>>
    ELSE <<FALSE, TRUE>>

\* returns <<from_increases, to_increases>>
get_transfer_impacts(nature, from_acct, to_acct) ==
    IF nature = "internal_transfer" THEN <<FALSE, TRUE>>
    ELSE IF nature = "cc_bill_payment" THEN <<FALSE, FALSE>>
    ELSE IF nature = "loan_given" THEN <<FALSE, TRUE>>
    ELSE IF nature = "loan_received" THEN <<TRUE, TRUE>>
    ELSE IF nature = "loan_repaid"
         THEN IF from_acct = "receivable" THEN <<FALSE, TRUE>>
              ELSE <<FALSE, FALSE>>
    ELSE IF nature = "reimbursement_received" THEN <<FALSE, TRUE>>
    ELSE IF nature = "adjustment" THEN <<FALSE, TRUE>>
    ELSE <<FALSE, TRUE>>

\* the branch of _get_transfer_impacts a nature takes: its own when the
\* if/elif chain names it, the final else otherwise
transfer_impacts_branch(nature) ==
    IF nature \in {"internal_transfer", "cc_bill_payment", "loan_given",
                   "loan_received", "loan_repaid", "reimbursement_received",
                   "adjustment"}
    THEN nature
    ELSE "else"

\* mutant: only assets increase by debit (receivables forgotten)
increase_entry_AssetOnly(acct_type, txn_id, acct_id, amount) ==
    IF acct_type = "asset"
    THEN LedgerEntryDTO(txn_id, acct_id, amount, 0)
    ELSE LedgerEntryDTO(txn_id, acct_id, 0, amount)

increase_entry(acct_type, txn_id, acct_id, amount) ==
    IF acct_type \in {"asset", "receivable"}
    THEN LedgerEntryDTO(txn_id, acct_id, amount, 0)
    ELSE LedgerEntryDTO(txn_id, acct_id, 0, amount)

\* mutant: a decrease booked as a negative amount on the increase side
decrease_entry_Negative(acct_type, txn_id, acct_id, amount) ==
    IF acct_type \in {"asset", "receivable"}
    THEN LedgerEntryDTO(txn_id, acct_id, 0 - amount, 0)
    ELSE LedgerEntryDTO(txn_id, acct_id, 0, 0 - amount)

decrease_entry(acct_type, txn_id, acct_id, amount) ==
    IF acct_type \in {"asset", "receivable"}
    THEN LedgerEntryDTO(txn_id, acct_id, 0, amount)
    ELSE LedgerEntryDTO(txn_id, acct_id, amount, 0)

\* the accounting class create_entries gives an endpoint from its label
EndpointClass(label) ==
    IF TruthyStr(label) THEN infer_accounting_type(label) ELSE "asset"

transfer_entries(txn_id, nature, amount, from_id, from_type, to_id, to_type) ==
    LET from_acct == EndpointClass(from_type)
        to_acct == EndpointClass(to_type)
        from_acct_id == OrZero(from_id)
        to_acct_id == OrZero(to_id)
        impacts == get_transfer_impacts(nature, from_acct, to_acct)
        from_entry == IF impacts[1]
                      THEN increase_entry(from_acct, txn_id, from_acct_id, amount)
                      ELSE decrease_entry(from_acct, txn_id, from_acct_id, amount)
        to_entry == IF impacts[2]
                    THEN increase_entry(to_acct, txn_id, to_acct_id, amount)
                    ELSE decrease_entry(to_acct, txn_id, to_acct_id, amount)
    IN  << from_entry, to_entry >>

Debits(entries) == [i \in 1..Len(entries) |-> entries[i].debit]
Credits(entries) == [i \in 1..Len(entries) |-> entries[i].credit]

\* mutant: the sanity check without abs()
Unbalanced_NoAbs(entries) ==
    FSub(PySum(Debits(entries)), PySum(Credits(entries))) > Tol

\* the sanity check of create_entries: abs(total_debit - total_credit) > 0.001
Unbalanced(entries) ==
    FAbs(FSub(PySum(Debits(entries)), PySum(Credits(entries)))) > Tol

\* a call either raises ValueError("Ledger imbalance ...") or returns entries
Raised == [raised |-> TRUE, entries |-> <<>>]
Returned(entries) == [raised |-> FALSE, entries |-> entries]

\* the local "entries" of create_entries before its sanity check
generate_entries(transaction_id, txn_type, txn_nature, amount, to_account_id, to_account_type, from_account_id, from_account_type) ==
    IF txn_type = "income"
    THEN income_entries(transaction_id, amount, to_account_id)
    ELSE IF txn_type = "expense"
    THEN expense_entries(transaction_id, amount, from_account_id)
    ELSE IF txn_type = "transfer"
    THEN transfer_entries(transaction_id, txn_nature, amount,
                          from_account_id, from_account_type,
                          to_account_id, to_account_type)
    ELSE <<>>

create_entries(transaction_id, txn_type, txn_nature, amount, to_account_id, to_account_type, from_account_id, from_account_type) ==
    LET entries == generate_entries(transaction_id, txn_type, txn_nature, amount,
                                    to_account_id, to_account_type,
                                    from_account_id, from_account_type)
    IN  IF Unbalanced(entries) THEN Raised ELSE Returned(entries)

\* the entries of one account, in ledger order
RECURSIVE EntriesOf(_, _)
EntriesOf(entries, account_id) ==
    IF entries = <<>> THEN <<>>
    ELSE IF Head(entries).account_id = account_id
         THEN <<Head(entries)>> \o EntriesOf(Tail(entries), account_id)
         ELSE EntriesOf(Tail(entries), account_id)

\* mutant: the entries are not filtered by account
account_balance_from_entries_AllAccounts(entries, account_id, acct_type) ==
    LET total_debit == PySum(Debits(entries))
        total_credit == PySum(Credits(entries))
    IN  IF acct_type \in {"asset", "receivable"}
        THEN FSub(total_debit, total_credit)
        ELSE FSub(total_credit, total_debit)

\* mutant: every class treated as debit-normal
account_balance_from_entries_DebitNormal(entries, account_id, acct_type) ==
    LET acct_entries == EntriesOf(entries, account_id)
    IN  FSub(PySum(Debits(acct_entries)), PySum(Credits(acct_entries)))

account_balance_from_entries(entries, account_id, acct_type) ==
    LET acct_entries == EntriesOf(entries, account_id)
        total_debit == PySum(Debits(acct_entries))
        total_credit == PySum(Credits(acct_entries))
    IN  IF acct_type \in {"asset", "receivable"}
        THEN FSub(total_debit, total_credit)
        ELSE FSub(total_credit, total_debit)

(* ---------------------------------------------------------------------- *)
(* validation.py                                                          *)
(* ---------------------------------------------------------------------- *)

\* TransactionInput (currency and notes are read by no rule)
TransactionInput(ty, nature, amount, from_id, to_id, from_type, to_type, category, counterparty) ==
    [transaction_type |-> ty, transaction_nature |-> nature, amount |-> amount,
     from_account_id |-> from_id, to_account_id |-> to_id,
     from_account_type |-> from_type, to_account_type |-> to_type,
     category |-> category, counterparty |-> counterparty]

\* each rule yields the messages it appends, as a sequence of tuples
check_amount(txn) ==
    IF txn.amount <= 0 THEN << <<"Amount must be positive.">> >> ELSE <<>>

check_nature_type_match(txn) ==
    IF ~is_valid_nature_for_type(txn.transaction_type, txn.transaction_nature)
    THEN << <<"Nature is not valid for type.", txn.transaction_nature,
              txn.transaction_type>> >>
    ELSE <<>>

check_expense_has_category(txn) ==
    IF txn.transaction_type = "expense" /\ ~TruthyStr(txn.category)
    THEN << <<"EXPENSE transactions require a category.">> >>
    ELSE <<>>

check_income_no_from_account(txn) ==
    IF txn.transaction_type = "income" /\ TruthyId(txn.from_account_id)
    THEN << <<"INCOME transactions must not have a from_account (money flows inward).">> >>
    ELSE <<>>

check_transfer_has_both_accounts(txn) ==
    IF /\ txn.transaction_type = "transfer"
       /\ (~TruthyId(txn.from_account_id) \/ ~TruthyId(txn.to_account_id))
    THEN << <<"TRANSFER transactions require both from_account and to_account.">> >>
    ELSE <<>>

\* mutant: the counterparty asked of Transfer-type loans only
check_loan_has_counterparty_TransferOnly(txn) ==
    IF /\ txn.transaction_type = "transfer"
       /\ txn.transaction_nature \in {"loan_given", "loan_received", "loan_repaid"}
       /\ ~TruthyStr(txn.counterparty)
    THEN << <<"Loan transactions require a counterparty name.">> >>
    ELSE <<>>

check_loan_has_counterparty(txn) ==
    IF /\ txn.transaction_nature \in {"loan_given", "loan_received", "loan_repaid"}
       /\ ~TruthyStr(txn.counterparty)
    THEN << <<"Loan transactions require a counterparty name.">> >>
    ELSE <<>>

\* mutant: a repayment accepted in one direction only (friend repays me)
check_account_type_movements_OneWayRepaid(txn) ==
    IF txn.transaction_type # "transfer" THEN <<>>
    ELSE IF ~TruthyStr(txn.from_account_type) \/ ~TruthyStr(txn.to_account_type)
    THEN <<>>
    ELSE
      LET from_acct == infer_accounting_type(txn.from_account_type)
          to_acct == infer_accounting_type(txn.to_account_type)
          nature == txn.transaction_nature
      IN  IF nature = "internal_transfer"
          THEN IF from_acct # "asset" \/ to_acct # "asset"
               THEN << <<"INTERNAL_TRANSFER requires both accounts to be ASSET type.">> >>
               ELSE <<>>
          ELSE IF nature = "cc_bill_payment"
          THEN IF from_acct # "asset" \/ to_acct # "liability"
               THEN << <<"CC_BILL_PAYMENT must flow from ASSET to LIABILITY account.">> >>
               ELSE <<>>
          ELSE IF nature = "loan_given"
          THEN IF from_acct # "asset" \/ to_acct # "receivable"
               THEN << <<"LOAN_GIVEN must flow from ASSET to RECEIVABLE account.">> >>
               ELSE <<>>
          ELSE IF nature = "loan_received"
          THEN IF from_acct # "payable" \/ to_acct # "asset"
               THEN << <<"LOAN_RECEIVED must flow from PAYABLE to ASSET account.">> >>
               ELSE <<>>
          ELSE IF nature = "loan_repaid"
          THEN IF <<from_acct, to_acct>> \notin
                    {<<"receivable", "asset">>}
               THEN << <<"LOAN_REPAID: must be Receivable->Asset (friend repays me) or Asset->Payable (I repay friend).">> >>
               ELSE <<>>
          ELSE IF nature = "reimbursement_received"
          THEN IF to_acct # "asset"
               THEN << <<"REIMBURSEMENT_RECEIVED must flow into an ASSET account.">> >>
               ELSE <<>>
          ELSE <<>>

check_account_type_movements(txn) ==
    IF txn.transaction_type # "transfer" THEN <<>>
    ELSE IF ~TruthyStr(txn.from_account_type) \/ ~TruthyStr(txn.to_account_type)
    THEN <<>>
    ELSE
      LET from_acct == infer_accounting_type(txn.from_account_type)
          to_acct == infer_accounting_type(txn.to_account_type)
          nature == txn.transaction_nature
      IN  IF nature = "internal_transfer"
          THEN IF from_acct # "asset" \/ to_acct # "asset"
               THEN << <<"INTERNAL_TRANSFER requires both accounts to be ASSET type.">> >>
               ELSE <<>>
          ELSE IF nature = "cc_bill_payment"
          THEN IF from_acct # "asset" \/ to_acct # "liability"
               THEN << <<"CC_BILL_PAYMENT must flow from ASSET to LIABILITY account.">> >>
               ELSE <<>>
          ELSE IF nature = "loan_given"
          THEN IF from_acct # "asset" \/ to_acct # "receivable"
               THEN << <<"LOAN_GIVEN must flow from ASSET to RECEIVABLE account.">> >>
               ELSE <<>>
          ELSE IF nature = "loan_received"
          THEN IF from_acct # "payable" \/ to_acct # "asset"
               THEN << <<"LOAN_RECEIVED must flow from PAYABLE to ASSET account.">> >>
               ELSE <<>>
          ELSE IF nature = "loan_repaid"
          THEN IF <<from_acct, to_acct>> \notin
                    {<<"receivable", "asset">>, <<"asset", "payable">>}
               THEN << <<"LOAN_REPAID: must be Receivable->Asset (friend repays me) or Asset->Payable (I repay friend).">> >>
               ELSE <<>>
          ELSE IF nature = "reimbursement_received"
          THEN IF to_acct # "asset"
               THEN << <<"REIMBURSEMENT_RECEIVED must flow into an ASSET account.">> >>
               ELSE <<>>
          ELSE <<>>

check_no_expense_to_receivable(txn) ==
    IF /\ txn.transaction_type = "expense"
       /\ TruthyStr(txn.to_account_type)
       /\ infer_accounting_type(txn.to_account_type) = "receivable"
    THEN << <<"Cannot route an EXPENSE to a RECEIVABLE account.">> >>
    ELSE <<>>

\* mutant: the rules stop at the first one that reports
validate_transaction_soft_FirstOnly(txn) ==
    LET all == check_amount(txn) \o check_nature_type_match(txn)
                 \o check_expense_has_category(txn)
                 \o check_income_no_from_account(txn)
                 \o check_transfer_has_both_accounts(txn)
                 \o check_loan_has_counterparty(txn)
                 \o check_account_type_movements(txn)
                 \o check_no_expense_to_receivable(txn)
    IN  IF all = <<>> THEN <<>> ELSE << Head(all) >>

\* ALL_RULES applied in order, each appending to the same list
validate_transaction_soft(txn) ==
    check_amount(txn) \o check_nature_type_match(txn)
      \o check_expense_has_category(txn) \o check_income_no_from_account(txn)
      \o check_transfer_has_both_accounts(txn) \o check_loan_has_counterparty(txn)
      \o check_account_type_movements(txn) \o check_no_expense_to_receivable(txn)

\* mutant: the strict variant raises on two or more violations only
validate_transaction_TwoOrMore(txn) ==
    LET errors == validate_transaction_soft(txn)
    IN  [raised |-> Len(errors) > 1, errors |-> errors]

\* mutant: the strict variant collects the violations and never raises
validate_transaction_NeverRaises(txn) ==
    [raised |-> FALSE, errors |-> validate_transaction_soft(txn)]

\* the strict variant: raises ValidationError(errors) when errors is not empty
validate_transaction(txn) ==
    LET errors == validate_transaction_soft(txn)
    IN  [raised |-> errors # <<>>, errors |-> errors]

(* ---------------------------------------------------------------------- *)
(* State                                                                  *)
(* ---------------------------------------------------------------------- *)

VARIABLES
    pc,            \* position of the library calls on intent txn
    txn,           \* the TransactionInput under validation and generation
    txn_id,        \* the transaction_id handed to create_entries
    errors,        \* what validate_transaction_soft returned for txn
    result,        \* what create_entries did for txn: raised, or its entries
    impacts,       \* local (from_increases, to_increases) of _transfer_entries
    generated,     \* local "entries" of create_entries before the sanity check
    accounts,      \* table accounts: id -> [account_type, balance]
    transactions,  \* table transactions, committed rows in id order
    ledger,        \* table ledger_entries, committed rows in insertion order
    strict,        \* what validate_transaction did for txn: raised, its errors
    account_type,  \* the account_type string handed to infer_accounting_type
    acct_class,    \* the AccountingType infer_accounting_type returned
    entry_list,    \* the LedgerEntryDTO list handed to the balance helper
    account_id,    \* the account_id handed to the balance helper
    balance,       \* what account_balance_from_entries returned
    session,       \* the SQLAlchemy session of the request being handled
    seen,          \* what another session last read from the database
    summary,       \* what get_income_expense_summary last returned, and for what
    classify_in,   \* the arguments handed to TransactionClassifier.classify
    classified,    \* the ClassificationResult classify returned
    hints,         \* what get_ux_hints last returned, and for what
    sessions       \* the sessions of two requests handled at the same time

libVars == << pc, txn, txn_id, errors, result, impacts, generated, strict >>
dbVars == << accounts, transactions, ledger >>
helperVars == << account_type, acct_class, entry_list, account_id, balance >>
sessionVars == << session, seen >>
reportVars == << summary >>
classifierVars == << classify_in, classified, hints >>
raceVars == << sessions >>
otherVars == << reportVars, classifierVars, raceVars >>

vars == << libVars, dbVars, helperVars, sessionVars, otherVars >>

(* ---------------------------------------------------------------------- *)
(* Inputs                                                                 *)
(* ---------------------------------------------------------------------- *)

\* amounts handed to the library: not positive, at and above Tol/2
Amounts == {-1, 0, 2, 3}
FromIds == {NoneId, 1}
ToIds == {NoneId, 2}
Labels == {NoneStr, "savings", "credit_card", "receivable", "payable"}
Categories == {NoneStr, "", "food"}
Counterparties == {NoneStr, "", "bob"}
TxnIds == {41, 42}

Intents ==
    { TransactionInput(ty, n, a, f, t, ft, tt, c, cp) :
        ty \in TransactionType, n \in TransactionNature, a \in Amounts,
        f \in FromIds, t \in ToIds, ft \in Labels, tt \in Labels,
        c \in Categories, cp \in Counterparties }

NotCalled == [raised |-> FALSE, entries |-> <<>>]
NotValidated == [raised |-> FALSE, errors |-> <<>>]

\* no request is being handled: the session holds nothing
NoSession ==
    [ pc |-> "idle", status |-> 0, payload |-> <<>>, labels |-> <<>>,
      row |-> <<>>, rows |-> <<>>, balances |-> <<>> ]

\* the variables of the balance helper and of the sessions while unused
HelpersIdle ==
    /\ account_type = NoneStr
    /\ acct_class = "asset"
    /\ entry_list = <<>>
    /\ account_id = 0
    /\ balance = 0

SessionsIdle ==
    /\ session = NoSession
    /\ seen = <<>>

\* the variables of the report, of the classifier and of the two concurrent
\* requests while unused
ReportIdle == summary = <<>>

ClassifierIdle ==
    /\ classify_in = <<>>
    /\ classified = <<>>
    /\ hints = <<>>

RaceIdle == sessions = <<>>

OthersIdle == ReportIdle /\ ClassifierIdle /\ RaceIdle

(* ---------------------------------------------------------------------- *)
(* The library: validation then generation of one intent                  *)
(* ---------------------------------------------------------------------- *)

Init ==
    /\ pc = "start"
    /\ txn \in Intents
    /\ txn_id = 0
    /\ errors = <<>>
    /\ result = NotCalled
    /\ impacts = <<>>
    /\ generated = <<>>
    /\ accounts = <<>>
    /\ transactions = <<>>
    /\ ledger = <<>>
    /\ strict = NotValidated
    /\ HelpersIdle
    /\ SessionsIdle
    /\ OthersIdle

\* validate_transaction_soft(txn)
Validate ==
    /\ pc = "start"
    /\ errors' = validate_transaction_soft(txn)
    /\ pc' = "validated"
    /\ UNCHANGED << txn, txn_id, result, impacts, generated, strict >>
    /\ UNCHANGED << dbVars, helperVars, sessionVars, otherVars >>

\* validate_transaction(txn), on an intent the soft variant has been run on
ValidateStrict ==
    /\ pc = "validated"
    /\ strict' = validate_transaction(txn)
    /\ pc' = "strict"
    /\ UNCHANGED << txn, txn_id, errors, result, impacts, generated >>
    /\ UNCHANGED << dbVars, helperVars, sessionVars, otherVars >>

\* LedgerEngine.create_entries(...) on the fields of txn; the engine does not
\* look at errors: it is callable on an intent validation rejects
CreateEntries ==
    /\ pc = "validated"
    /\ \E id \in TxnIds :
         /\ txn_id' = id
         /\ generated' = generate_entries(id, txn.transaction_type,
                                     txn.transaction_nature, txn.amount,
                                     txn.to_account_id, txn.to_account_type,
                                     txn.from_account_id, txn.from_account_type)
         /\ result' = create_entries(id, txn.transaction_type,
                                     txn.transaction_nature, txn.amount,
                                     txn.to_account_id, txn.to_account_type,
                                     txn.from_account_id, txn.from_account_type)
    /\ impacts' = IF txn.transaction_type = "transfer"
                  THEN get_transfer_impacts(txn.transaction_nature,
                                            EndpointClass(txn.from_account_type),
                                            EndpointClass(txn.to_account_type))
                  ELSE <<>>
    /\ pc' = "generated"
    /\ UNCHANGED << txn, errors, strict >>
    /\ UNCHANGED << dbVars, helperVars, sessionVars, otherVars >>

Next == Validate \/ ValidateStrict \/ CreateEntries

Spec == Init /\ [][Next]_vars

(* ---------------------------------------------------------------------- *)
(* routes.py: POST /api/v1/accounting/transactions                        *)
(* ---------------------------------------------------------------------- *)

\* committed transactions a run may reach
MaxTxns == 3

\* account-type labels of the accounts table, one per accounting class
LedgerLabels == {"savings", "credit_card", "receivable", "payable"}
\* the accounts table holds ids 1 and 2; id 3 is asked for but does not exist
ExistingIds == {1, 2}
PayloadFromIds == {NoneId, 1, 2, 3}
PayloadToIds == {NoneId, 1, 2}
\* 2 is Tol/2 (an imbalance the sanity check lets through), 7 is above it
PayloadAmounts == {2, 7}
\* the requests of this specification are the transfers and loans
PayloadTypes == {"transfer"}
PayloadNatures == TransferNatures \ {"reimbursement_received"}
\* dates are days; these requests are all dated day 1
PayloadDates == {1}

\* AccountingTransactionCreate: the fields the handler reads
Payloads ==
    [ transaction_type : PayloadTypes, transaction_nature : PayloadNatures,
      amount : PayloadAmounts, from_account_id : PayloadFromIds,
      to_account_id : PayloadToIds, category : {NoneStr},
      counterparty : Counterparties, date : PayloadDates ]

\* "a or b" on Optional[int]
OrElse(a, b) == IF TruthyId(a) THEN a ELSE b

\* the Transaction row the handler adds (columns the model reads)
TransactionRow(id, payload) ==
    [ id |-> id,
      transaction_type |-> payload.transaction_type,
      transaction_nature |-> payload.transaction_nature,
      amount |-> payload.amount,
      from_account_id |-> payload.from_account_id,
      to_account_id |-> payload.to_account_id,
      account_id |-> OrElse(payload.to_account_id, payload.from_account_id),
      date |-> payload.date,
      is_deleted |-> FALSE ]

\* the LedgerEntry row of a DTO: virtual account 0 is stored as NULL
LedgerEntryRow(dto) ==
    [ transaction_id |-> dto.transaction_id,
      account_id |-> IF dto.account_id # 0 THEN dto.account_id ELSE NoneId,
      debit |-> dto.debit, credit |-> dto.credit ]

LedgerEntryRows(dtos) == [i \in 1..Len(dtos) |-> LedgerEntryRow(dtos[i])]

\* db.query(LedgerEntry).filter(LedgerEntry.transaction_id == id)
RowsOfTransaction(entries, id) ==
    SelectSeq(entries, LAMBDA e : e.transaction_id = id)

\* db.query(Account).get(id) finds a row
Found(accts, id) == TruthyId(id) /\ id \in DOMAIN accts

AddToBalance(accts, id, delta) ==
    [accts EXCEPT ![id].balance = FAdd(accts[id].balance, delta)]

\* _update_account_balances(db, txn)
update_account_balances(accts, row) ==
    LET amount == FAbs(row.amount)
        IsDebitNormal(a, id) ==
            infer_accounting_type(a[id].account_type) \in {"asset", "receivable"}
    IN  IF row.transaction_type = "transfer"
        THEN LET a1 == IF Found(accts, row.from_account_id)
                       THEN IF IsDebitNormal(accts, row.from_account_id)
                            THEN AddToBalance(accts, row.from_account_id, 0 - amount)
                            ELSE AddToBalance(accts, row.from_account_id, amount)
                       ELSE accts
             IN  IF Found(a1, row.to_account_id)
                 THEN AddToBalance(a1, row.to_account_id, amount)
                 ELSE a1
        ELSE IF row.transaction_type = "income"
        THEN LET acct_id == OrElse(row.to_account_id, row.account_id)
             IN  IF Found(accts, acct_id)
                 THEN AddToBalance(accts, acct_id, amount) ELSE accts
        ELSE IF row.transaction_type = "expense"
        THEN LET acct_id == OrElse(row.from_account_id, row.account_id)
             IN  IF Found(accts, acct_id)
                 THEN AddToBalance(accts, acct_id, 0 - amount) ELSE accts
        ELSE accts

\* the label the handler resolves for an endpoint
ResolvedType(accts, id) ==
    IF TruthyId(id) THEN accts[id].account_type ELSE NoneStr

\* the whole handler: account lookup (404), strict validation (422), the
\* transaction row, create_entries (an imbalance error ends the request
\* without commit: 500), the two ledger rows, the balances, one commit (201)
create_accounting_transaction(payload) ==
    /\ IF \/ (TruthyId(payload.from_account_id)
                /\ ~Found(accounts, payload.from_account_id))
          \/ (TruthyId(payload.to_account_id)
                /\ ~Found(accounts, payload.to_account_id))
       THEN UNCHANGED << accounts, transactions, ledger >>  \* 404
       ELSE
         LET from_acct_type == ResolvedType(accounts, payload.from_account_id)
             to_acct_type == ResolvedType(accounts, payload.to_account_id)
             txn_input == TransactionInput(
                 payload.transaction_type, payload.transaction_nature,
                 payload.amount, payload.from_account_id, payload.to_account_id,
                 from_acct_type, to_acct_type,
                 payload.category, payload.counterparty)
             row == TransactionRow(Len(transactions) + 1, payload)
             entries == create_entries(
                 row.id, payload.transaction_type, payload.transaction_nature,
                 payload.amount, payload.to_account_id, to_acct_type,
                 payload.from_account_id, from_acct_type)
         IN  IF validate_transaction(txn_input).raised
             THEN UNCHANGED << accounts, transactions, ledger >>  \* 422
             ELSE IF entries.raised
             THEN UNCHANGED << accounts, transactions, ledger >>  \* 500
             ELSE /\ transactions' = Append(transactions, row)
                  /\ ledger' = ledger \o LedgerEntryRows(entries.entries)
                  /\ accounts' = update_account_balances(accounts, row)
    /\ UNCHANGED << libVars, helperVars, sessionVars, otherVars >>

IdleIntent ==
    TransactionInput("income", "salary", 0, NoneId, NoneId, NoneStr, NoneStr,
                     NoneStr, NoneStr)

\* a database with a savings account and one account of any class, zero
\* balances and no history
LedgerInit ==
    /\ pc = "idle"
    /\ txn = IdleIntent
    /\ txn_id = 0
    /\ errors = <<>>
    /\ result = NotCalled
    /\ impacts = <<>>
    /\ generated = <<>>
    /\ accounts \in { [id \in ExistingIds |->
                        [account_type |-> IF id = 1 THEN "savings" ELSE label,
                         balance |-> 0]] : label \in LedgerLabels }
    /\ transactions = <<>>
    /\ ledger = <<>>
    /\ strict = NotValidated
    /\ HelpersIdle
    /\ SessionsIdle
    /\ OthersIdle

LedgerNext ==
    /\ Len(transactions) < MaxTxns
    /\ \E payload \in Payloads : create_accounting_transaction(payload)

LedgerSpec == LedgerInit /\ [][LedgerNext]_vars

(* ---------------------------------------------------------------------- *)
(* routes.py, statement by statement: one request in its own session, and *)
(* another session reading the database while it runs                     *)
(* ---------------------------------------------------------------------- *)

\* transactions a run of the step-wise handler may commit
MaxCommits == 2

SessionFromIds == {1, 2, 3}
SessionToIds == {NoneId, 1, 2}
SessionNatures == {"internal_transfer", "loan_received", "adjustment"}
SessionCounterparties == {NoneStr, "bob"}

\* the requests of the step-wise handler: amount 7 is above the tolerance
SessionPayloads ==
    [ transaction_type : {"transfer"}, transaction_nature : SessionNatures,
      amount : {7}, from_account_id : SessionFromIds,
      to_account_id : SessionToIds, category : {NoneStr},
      counterparty : SessionCounterparties, date : PayloadDates ]

\* mutant: a session in autocommit mode, whose flush is visible at once
flush_Autocommit(table, row) == Append(table, row)

\* db.flush() under sessionmaker(autocommit=False): the INSERT runs inside the
\* session's open transaction, so the table other sessions read is unchanged
flush(table, row) == table

\* mutant: closing the session commits what it flushed
close_Commits(table, sess) ==
    IF sess.pc = "raised" THEN Append(table, sess.row) ELSE table

\* db.close() in get_db's finally: an open transaction is rolled back, so the
\* table other sessions read is unchanged
close(table, sess) == table

\* from the dependency get_db to db.flush(): the account lookups (404), the
\* strict validation (422), db.add(txn) and db.flush()
BeginRequest(payload) ==
    /\ session.pc \in {"idle", "closed"}
    /\ Len(transactions) < MaxCommits
    /\ IF \/ (TruthyId(payload.from_account_id)
                /\ ~Found(accounts, payload.from_account_id))
          \/ (TruthyId(payload.to_account_id)
                /\ ~Found(accounts, payload.to_account_id))
       THEN /\ session' = [NoSession EXCEPT !.pc = "rejected", !.status = 404,
                                            !.payload = payload]
            /\ UNCHANGED transactions
       ELSE
         LET from_acct_type == ResolvedType(accounts, payload.from_account_id)
             to_acct_type == ResolvedType(accounts, payload.to_account_id)
             txn_input == TransactionInput(
                 payload.transaction_type, payload.transaction_nature,
                 payload.amount, payload.from_account_id, payload.to_account_id,
                 from_acct_type, to_acct_type,
                 payload.category, payload.counterparty)
             row == TransactionRow(Len(transactions) + 1, payload)
         IN  IF validate_transaction(txn_input).raised
             THEN /\ session' = [NoSession EXCEPT !.pc = "rejected",
                                                  !.status = 422,
                                                  !.payload = payload]
                  /\ UNCHANGED transactions
             ELSE /\ session' = [ pc |-> "flushed", status |-> 0,
                                  payload |-> payload,
                                  labels |-> <<from_acct_type, to_acct_type>>,
                                  row |-> row, rows |-> <<>>,
                                  balances |-> accounts ]
                  /\ transactions' = flush(transactions, row)
    /\ UNCHANGED << accounts, ledger, seen >>
    /\ UNCHANGED << libVars, helperVars, otherVars >>

\* _ledger.create_entries(...) and the db.add(le) loop; a ValueError leaves
\* the handler
GenerateEntries ==
    /\ session.pc = "flushed"
    /\ LET payload == session.payload
           made == create_entries(
               session.row.id, payload.transaction_type,
               payload.transaction_nature, payload.amount,
               payload.to_account_id, session.labels[2],
               payload.from_account_id, session.labels[1])
       IN  IF made.raised
           THEN session' = [session EXCEPT !.pc = "raised", !.status = 500]
           ELSE session' = [session EXCEPT !.pc = "added",
                                           !.rows = LedgerEntryRows(made.entries)]
    /\ UNCHANGED << dbVars, seen >>
    /\ UNCHANGED << libVars, helperVars, otherVars >>

\* _update_account_balances(db, txn), on the session's Account objects
UpdateBalances ==
    /\ session.pc = "added"
    /\ session' = [session EXCEPT
                      !.pc = "updated",
                      !.balances = update_account_balances(session.balances,
                                                           session.row)]
    /\ UNCHANGED << dbVars, seen >>
    /\ UNCHANGED << libVars, helperVars, otherVars >>

\* db.commit(): the flushed row, the pending ledger rows and the changed
\* balances are written and committed in one database transaction
Commit ==
    /\ session.pc = "updated"
    /\ transactions' = Append(transactions, session.row)
    /\ ledger' = ledger \o session.rows
    /\ accounts' = session.balances
    /\ session' = [session EXCEPT !.pc = "committed", !.status = 201]
    /\ UNCHANGED seen
    /\ UNCHANGED << libVars, helperVars, otherVars >>

\* the finally of get_db: db.close(), after the response or the exception
CloseSession ==
    /\ session.pc \in {"rejected", "raised", "committed"}
    /\ transactions' = close(transactions, session)
    /\ session' = [session EXCEPT !.pc = "closed"]
    /\ UNCHANGED << accounts, ledger, seen >>
    /\ UNCHANGED << libVars, helperVars, otherVars >>

\* another session reads the three tables while a request is being handled
Read ==
    /\ session.pc \notin {"idle", "closed"}
    /\ seen' = [transactions |-> transactions, ledger |-> ledger,
                accounts |-> accounts]
    /\ seen' # seen
    /\ UNCHANGED << dbVars, session >>
    /\ UNCHANGED << libVars, helperVars, otherVars >>

SessionInit ==
    /\ pc = "idle"
    /\ txn = IdleIntent
    /\ txn_id = 0
    /\ errors = <<>>
    /\ result = NotCalled
    /\ impacts = <<>>
    /\ generated = <<>>
    /\ strict = NotValidated
    /\ HelpersIdle
    /\ accounts \in { [id \in ExistingIds |->
                        [account_type |-> IF id = 1 THEN "savings" ELSE label,
                         balance |-> 0]] : label \in LedgerLabels }
    /\ transactions = <<>>
    /\ ledger = <<>>
    /\ SessionsIdle
    /\ OthersIdle

SessionNext ==
    \/ \E payload \in SessionPayloads : BeginRequest(payload)
    \/ GenerateEntries
    \/ UpdateBalances
    \/ Commit
    \/ CloseSession
    \/ Read

SessionSpec == SessionInit /\ [][SessionNext]_vars

(* ---------------------------------------------------------------------- *)
(* The helpers: infer_accounting_type, then account_balance_from_entries  *)
(* ---------------------------------------------------------------------- *)

\* entries handed to the balance helper in one call
MaxEntries == 3

\* the keys of ACCOUNT_TYPE_TO_ACCOUNTING
TableLabels == AssetLabels \cup LiabilityLabels \cup {"receivable", "payable"}
\* strings the table does not hold (its keys are case-sensitive)
UnknownLabels == {"gold", "CREDIT_CARD", ""}
AccountTypeStrings == TableLabels \cup UnknownLabels

\* one unit, and the first float whose successor is two units away
EntryAmounts == {1, Mant}
EntryAccounts == {1, 2}

\* one-sided DTOs of transaction 41 on the two accounts
EntryKinds ==
    { LedgerEntryDTO(41, id, a, 0) : id \in EntryAccounts, a \in EntryAmounts }
      \cup
    { LedgerEntryDTO(41, id, 0, a) : id \in EntryAccounts, a \in EntryAmounts }

EntryLists == UNION { [1..n -> EntryKinds] : n \in 0..MaxEntries }

HelperInit ==
    /\ pc = "start"
    /\ account_type \in AccountTypeStrings
    /\ entry_list \in EntryLists
    /\ acct_class = "asset"
    /\ account_id = 0
    /\ balance = 0
    /\ txn = IdleIntent
    /\ txn_id = 0
    /\ errors = <<>>
    /\ result = NotCalled
    /\ impacts = <<>>
    /\ generated = <<>>
    /\ strict = NotValidated
    /\ accounts = <<>>
    /\ transactions = <<>>
    /\ ledger = <<>>
    /\ SessionsIdle
    /\ OthersIdle

\* infer_accounting_type(account_type)
InferAccountingType ==
    /\ pc = "start"
    /\ acct_class' = infer_accounting_type(account_type)
    /\ pc' = "inferred"
    /\ UNCHANGED << account_type, entry_list, account_id, balance >>
    /\ UNCHANGED << txn, txn_id, errors, result, impacts, generated, strict >>
    /\ UNCHANGED << dbVars, sessionVars, otherVars >>

\* LedgerEngine.account_balance_from_entries(entries, account_id, acct_type)
AccountBalance ==
    /\ pc = "inferred"
    /\ \E id \in EntryAccounts :
         /\ account_id' = id
         /\ balance' = account_balance_from_entries(entry_list, id, acct_class)
    /\ pc' = "balanced"
    /\ UNCHANGED << account_type, entry_list, acct_class >>
    /\ UNCHANGED << txn, txn_id, errors, result, impacts, generated, strict >>
    /\ UNCHANGED << dbVars, sessionVars, otherVars >>

HelperNext == InferAccountingType \/ AccountBalance

HelperSpec == HelperInit /\ [][HelperNext]_vars

(* ---------------------------------------------------------------------- *)
(* main.py, ingestion/routes.py, accounting/routes.py and reports.py: the  *)
(* operations that create, edit, soft-delete and restore transactions, and *)
(* the income and expense report.  One user; every account of the model is *)
(* active and held at the one institution the import names.                *)
(* ---------------------------------------------------------------------- *)

\* rows of the transactions table a run may reach
MaxRows == 2

\* the units of one cent: round(x, 2) rounds to a multiple of it
Cent == 40

ApiDates == {1, 2}
\* the accounting requests are of one cent, the edits set two cents
ApiAmounts == {Cent}
EditAmounts == {2 * Cent}
\* the periods reported on: day 1, and days 1 to 2
ReportRanges == { <<1, 1>>, <<1, 2>> }
\* the legacy endpoints accept any float and any type string
LegacyAmounts == {0 - Cent, Cent}

\* AccountingTransactionCreate: transfers from account 1 to account 2, an
\* income into account 1 and an expense out of account 1
ApiPayloads ==
    [ transaction_type : {"transfer"},
      transaction_nature : {"internal_transfer", "cc_bill_payment"},
      amount : ApiAmounts, from_account_id : {1}, to_account_id : {2},
      category : {NoneStr}, counterparty : {NoneStr}, date : ApiDates ]
    \cup
    [ transaction_type : {"income"}, transaction_nature : {"salary"},
      amount : ApiAmounts, from_account_id : {NoneId}, to_account_id : {1},
      category : {NoneStr}, counterparty : {NoneStr}, date : ApiDates ]
    \cup
    [ transaction_type : {"expense"}, transaction_nature : {"purchase"},
      amount : ApiAmounts, from_account_id : {1}, to_account_id : {NoneId},
      category : {"food"}, counterparty : {NoneStr}, date : ApiDates ]

\* TransactionCreate: the fields add_transaction and confirm_import read
TransactionCreate ==
    [ transaction_type : TransactionType, amount : LegacyAmounts,
      date : ApiDates, account_id : {NoneId, 1} ]

\* the Transaction row of the legacy endpoints: no nature, no endpoints
LegacyRow(id, data, acct_id) ==
    [ id |-> id,
      transaction_type |-> data.transaction_type,
      transaction_nature |-> NoneStr,
      amount |-> data.amount,
      from_account_id |-> NoneId,
      to_account_id |-> NoneId,
      account_id |-> acct_id,
      date |-> data.date,
      is_deleted |-> FALSE ]

\* POST /api/v1/transactions
add_transaction(data) ==
    /\ transactions' = Append(transactions,
                              LegacyRow(Len(transactions) + 1, data, NoneId))
    /\ UNCHANGED << accounts, ledger >>
    /\ UNCHANGED << libVars, helperVars, sessionVars, otherVars >>

\* the batches of an import, and its (bank_name, account_type)
ImportBatches(n) == UNION { [1..m -> TransactionCreate] : m \in 0..n }
ImportBanks == { <<NoneStr, NoneStr>>, <<"hdfc", "credit_card">> }

\* the first account of the bank with that account_type, in id order
MatchingAccounts(accts, acct_type) ==
    { id \in DOMAIN accts : accts[id].account_type = acct_type }

MinOf(S) == CHOOSE x \in S : \A y \in S : x <= y

\* POST /confirm: resolve the account (the first row's, or the bank's account
\* of that type, created with balance 0.0 when there is none), then one
\* Transaction row per item
confirm_import(batch, bank_name, acct_type) ==
    LET named == batch # <<>> /\ TruthyId(batch[1].account_id)
        lookup == ~named /\ TruthyStr(bank_name) /\ TruthyStr(acct_type)
        existing == MatchingAccounts(accounts, acct_type)
        new_id == Len(accounts) + 1
        resolved_account_id ==
            IF named THEN batch[1].account_id
            ELSE IF ~lookup THEN NoneId
            ELSE IF existing # {} THEN MinOf(existing)
            ELSE new_id
    IN  /\ accounts' =
            IF lookup /\ existing = {}
            THEN Append(accounts, [account_type |-> acct_type, balance |-> 0])
            ELSE accounts
        /\ transactions' = transactions \o
              [i \in 1..Len(batch) |->
                  LegacyRow(Len(transactions) + i, batch[i],
                            OrElse(batch[i].account_id, resolved_account_id))]
        /\ UNCHANGED ledger
        /\ UNCHANGED << libVars, helperVars, sessionVars, otherVars >>

\* the position of the row with that id, 0 when there is none
RowIndex(rows, id) ==
    IF \E k \in 1..Len(rows) : rows[k].id = id
    THEN CHOOSE k \in 1..Len(rows) : rows[k].id = id
    ELSE 0

\* TransactionUpdate with one field set
Updates ==
    ({"amount"} \X EditAmounts) \cup ({"transaction_type"} \X {"income", "transfer"})

\* PUT /api/v1/transactions/{id}: 404 and 400 change nothing
update_transaction(id, field, new_val) ==
    LET k == RowIndex(transactions, id)
    IN  /\ k # 0
        /\ ~transactions[k].is_deleted
        /\ transactions[k][field] # new_val
        /\ transactions' = [transactions EXCEPT ![k][field] = new_val]
        /\ UNCHANGED << accounts, ledger >>
        /\ UNCHANGED << libVars, helperVars, sessionVars, otherVars >>

\* mutant: the soft delete removes the ledger entries of the row, as the
\* delete-orphan cascade of a hard delete would
entries_after_delete_Cascade(entries, id) ==
    SelectSeq(entries, LAMBDA e : e.transaction_id # id)

\* what delete_transaction leaves of the ledger: it sets is_deleted and
\* deleted_at on the row and touches no LedgerEntry
entries_after_delete(entries, id) == entries

\* DELETE /api/v1/transactions/{id}: 404 and 400 change nothing
delete_transaction(id) ==
    LET k == RowIndex(transactions, id)
    IN  /\ k # 0
        /\ ~transactions[k].is_deleted
        /\ transactions' = [transactions EXCEPT ![k].is_deleted = TRUE]
        /\ ledger' = entries_after_delete(ledger, id)
        /\ UNCHANGED accounts
        /\ UNCHANGED << libVars, helperVars, sessionVars, otherVars >>

\* POST /api/v1/transactions/{id}/restore: 404 and 400 change nothing
restore_transaction(id) ==
    LET k == RowIndex(transactions, id)
    IN  /\ k # 0
        /\ transactions[k].is_deleted
        /\ transactions' = [transactions EXCEPT ![k].is_deleted = FALSE]
        /\ UNCHANGED << accounts, ledger >>
        /\ UNCHANGED << libVars, helperVars, sessionVars, otherVars >>

\* round(x, 2): to the nearest cent, ties to the even cent, then to a float
round2(x) ==
    LET mag == FAbs(x)
        q == mag \div Cent
        r == mag % Cent
        up == 2 * r > Cent \/ (2 * r = Cent /\ q % 2 = 1)
        cents == IF up THEN (q + 1) * Cent ELSE q * Cent
    IN  Fl(IF x < 0 THEN 0 - cents ELSE cents)

AbsAmounts(rows) == [i \in 1..Len(rows) |-> FAbs(rows[i].amount)]

\* mutant: the query without its filter on transaction_type
get_income_expense_summary_NoTypeFilter(rows, start_date, end_date) ==
    LET sel == SelectSeq(rows, LAMBDA r :
                   /\ ~r.is_deleted
                   /\ r.date >= start_date
                   /\ r.date <= end_date)
        total_income ==
            PySum(AbsAmounts(SelectSeq(sel,
                LAMBDA r : r.transaction_type = "income")))
        total_expenses ==
            PySum(AbsAmounts(SelectSeq(sel,
                LAMBDA r : r.transaction_type # "income")))
    IN  [ start_date |-> start_date, end_date |-> end_date,
          total_income |-> round2(total_income),
          total_expenses |-> round2(total_expenses),
          net |-> round2(FSub(total_income, total_expenses)) ]

\* ReportingEngine.get_income_expense_summary: the totals and the net of the
\* rows the query returns, accumulated in row order
get_income_expense_summary(rows, start_date, end_date) ==
    LET sel == SelectSeq(rows, LAMBDA r :
                   /\ ~r.is_deleted
                   /\ r.date >= start_date
                   /\ r.date <= end_date
                   /\ r.transaction_type \in {"income", "expense"})
        total_income ==
            PySum(AbsAmounts(SelectSeq(sel,
                LAMBDA r : r.transaction_type = "income")))
        total_expenses ==
            PySum(AbsAmounts(SelectSeq(sel,
                LAMBDA r : r.transaction_type # "income")))
    IN  [ start_date |-> start_date, end_date |-> end_date,
          total_income |-> round2(total_income),
          total_expenses |-> round2(total_expenses),
          net |-> round2(FSub(total_income, total_expenses)) ]

\* GET /reports/income-expense
report_income_expense(start_date, end_date) ==
    /\ summary' = get_income_expense_summary(transactions, start_date, end_date)
    /\ summary' # summary
    /\ UNCHANGED dbVars
    /\ UNCHANGED << libVars, helperVars, sessionVars, classifierVars, raceVars >>

\* a database with a savings account and a savings or credit-card account,
\* zero balances and no history
ApiInit ==
    /\ pc = "idle"
    /\ txn = IdleIntent
    /\ txn_id = 0
    /\ errors = <<>>
    /\ result = NotCalled
    /\ impacts = <<>>
    /\ generated = <<>>
    /\ accounts \in { [id \in ExistingIds |->
                        [account_type |-> IF id = 1 THEN "savings" ELSE label,
                         balance |-> 0]] : label \in {"savings", "credit_card"} }
    /\ transactions = <<>>
    /\ ledger = <<>>
    /\ strict = NotValidated
    /\ HelpersIdle
    /\ SessionsIdle
    /\ OthersIdle

Creates ==
    \/ /\ Len(transactions) < MaxRows
       /\ \E payload \in ApiPayloads : create_accounting_transaction(payload)
    \/ /\ Len(transactions) < MaxRows
       /\ \E data \in TransactionCreate : add_transaction(data)
    \/ \E batch \in ImportBatches(MaxRows - Len(transactions)) :
          \E bank \in ImportBanks : confirm_import(batch, bank[1], bank[2])

ApiNext ==
    \/ Creates
    \/ \E id \in 1..MaxRows : \E u \in Updates : update_transaction(id, u[1], u[2])
    \/ \E id \in 1..MaxRows : delete_transaction(id)
    \/ \E id \in 1..MaxRows : restore_transaction(id)
    \/ \E range \in ReportRanges : report_income_expense(range[1], range[2])

ApiSpec == ApiInit /\ [][ApiNext]_vars

(* ---------------------------------------------------------------------- *)
(* classifier.py and the UX helper of validation.py                        *)
(* ---------------------------------------------------------------------- *)

\* descriptions handed to the classifier: one or two per pattern, one that
\* matches two patterns, two that match none, and None
Descriptions ==
    { "loan to bob", "loan from bank", "loan repaid", "self transfer",
      "transfer to own", "cc bill payment", "bill card was paid",
      "reimbursement", "salary", "invoice pay", "netflix", "direct debit",
      "salary loan given", "coffee", "", NoneStr }

\* _NATURE_PATTERNS in list order; "matches" is what re.search(pattern, d)
\* finds among Descriptions; confidence in hundredths
NATURE_PATTERNS ==
    << [ matches |-> {"loan to bob", "salary loan given"},
         transaction_type |-> "transfer", transaction_nature |-> "loan_given",
         confidence |-> 85 ],
       [ matches |-> {"loan from bank"},
         transaction_type |-> "transfer", transaction_nature |-> "loan_received",
         confidence |-> 85 ],
       [ matches |-> {"loan repaid"},
         transaction_type |-> "transfer", transaction_nature |-> "loan_repaid",
         confidence |-> 85 ],
       [ matches |-> {"self transfer"},
         transaction_type |-> "transfer",
         transaction_nature |-> "internal_transfer", confidence |-> 95 ],
       [ matches |-> {"transfer to own"},
         transaction_type |-> "transfer",
         transaction_nature |-> "internal_transfer", confidence |-> 90 ],
       [ matches |-> {"cc bill payment"},
         transaction_type |-> "transfer",
         transaction_nature |-> "cc_bill_payment", confidence |-> 90 ],
       [ matches |-> {"bill card was paid"},
         transaction_type |-> "transfer",
         transaction_nature |-> "cc_bill_payment", confidence |-> 85 ],
       [ matches |-> {"reimbursement"},
         transaction_type |-> "transfer",
         transaction_nature |-> "reimbursement_received", confidence |-> 75 ],
       [ matches |-> {"salary", "salary loan given"},
         transaction_type |-> "income", transaction_nature |-> "salary",
         confidence |-> 90 ],
       [ matches |-> {"invoice pay"},
         transaction_type |-> "income",
         transaction_nature |-> "business_income", confidence |-> 80 ],
       [ matches |-> {"netflix"},
         transaction_type |-> "expense", transaction_nature |-> "subscription",
         confidence |-> 85 ],
       [ matches |-> {"direct debit"},
         transaction_type |-> "expense", transaction_nature |-> "bill_payment",
         confidence |-> 70 ] >>

\* re.search(pattern i, description) finds a match
re_search(i, description) == description \in NATURE_PATTERNS[i].matches

ClassificationResult(ty, nature, confidence, reasoning) ==
    [ raised |-> FALSE, transaction_type |-> ty, transaction_nature |-> nature,
      confidence |-> confidence, reasoning |-> reasoning ]

\* re.search on a description that is None raises TypeError
RaisedTypeError ==
    [ raised |-> TRUE, transaction_type |-> NoneStr,
      transaction_nature |-> NoneStr, confidence |-> 0, reasoning |-> "TypeError" ]

\* _classify_by_accounts returned None
NoResult == <<>>

\* mutant: an asset paying into a liability is taken for a loan given
classify_by_accounts_LoanToLiability(from_type, to_type) ==
    LET from_acct == infer_accounting_type(from_type)
        to_acct == infer_accounting_type(to_type)
    IN  IF from_acct = "asset" /\ to_acct \in {"liability", "receivable"}
        THEN ClassificationResult("transfer", "loan_given", 80, "accounts")
        ELSE NoResult

\* TransactionClassifier._classify_by_accounts
classify_by_accounts(from_type, to_type) ==
    LET from_acct == infer_accounting_type(from_type)
        to_acct == infer_accounting_type(to_type)
    IN  IF from_acct = "asset" /\ to_acct = "asset"
        THEN ClassificationResult("transfer", "internal_transfer", 80, "accounts")
        ELSE IF from_acct = "asset" /\ to_acct = "liability"
        THEN ClassificationResult("transfer", "cc_bill_payment", 75, "accounts")
        ELSE IF from_acct = "asset" /\ to_acct = "receivable"
        THEN ClassificationResult("transfer", "loan_given", 80, "accounts")
        ELSE IF from_acct = "payable" /\ to_acct = "asset"
        THEN ClassificationResult("transfer", "loan_received", 80, "accounts")
        ELSE IF from_acct = "receivable" /\ to_acct = "asset"
        THEN ClassificationResult("transfer", "loan_repaid", 80, "accounts")
        ELSE IF from_acct = "asset" /\ to_acct = "payable"
        THEN ClassificationResult("transfer", "loan_repaid", 80, "accounts")
        ELSE NoResult

\* TransactionClassifier.classify: first matching pattern, else the accounts
\* heuristic, else the sign of the amount
classify(description, amount, from_account_type, to_account_type) ==
    LET hits == { i \in 1..Len(NATURE_PATTERNS) : re_search(i, description) }
        first == NATURE_PATTERNS[MinOf(hits)]
        by_accounts == classify_by_accounts(from_account_type, to_account_type)
    IN  IF description = NoneStr THEN RaisedTypeError
        ELSE IF hits # {}
        THEN ClassificationResult(first.transaction_type,
                 first.transaction_nature, first.confidence, "pattern")
        ELSE IF /\ TruthyStr(from_account_type)
                /\ TruthyStr(to_account_type)
                /\ by_accounts # NoResult
        THEN by_accounts
        ELSE IF amount > 0
        THEN ClassificationResult("income", "other_income", 30, "fallback")
        ELSE ClassificationResult("expense", "purchase", 30, "fallback")

\* mutant: only the three loan natures require a counterparty
get_ux_hints_LoansOnly(txn_type, txn_nature) ==
    [ show_category |-> txn_type # "transfer",
      require_counterparty |->
          txn_nature \in {"loan_given", "loan_received", "loan_repaid"},
      require_both_accounts |-> txn_type = "transfer",
      affects_net_worth |-> txn_type \in {"income", "expense"} ]

\* get_ux_hints(txn_type, txn_nature)
get_ux_hints(txn_type, txn_nature) ==
    LET is_transfer == txn_type = "transfer"
        is_loan == txn_nature \in {"loan_given", "loan_received", "loan_repaid"}
    IN  [ show_category |-> ~is_transfer,
          require_counterparty |->
              is_loan \/ txn_nature \in {"reimbursement_paid",
                                         "reimbursement_received"},
          require_both_accounts |-> is_transfer,
          affects_net_worth |-> txn_type \in {"income", "expense"} ]

ClassifierAmounts == {-1, 0, 2}
\* None, the empty string, one label per class and a label of no class
ClassifierLabels ==
    {NoneStr, "", "savings", "credit_card", "receivable", "payable", "gold"}

ClassifierInit ==
    /\ pc = "start"
    /\ classify_in \in [ description : Descriptions, amount : ClassifierAmounts,
                         from_account_type : ClassifierLabels,
                         to_account_type : ClassifierLabels ]
    /\ classified = <<>>
    /\ hints = <<>>
    /\ txn = IdleIntent
    /\ txn_id = 0
    /\ errors = <<>>
    /\ result = NotCalled
    /\ impacts = <<>>
    /\ generated = <<>>
    /\ strict = NotValidated
    /\ accounts = <<>>
    /\ transactions = <<>>
    /\ ledger = <<>>
    /\ HelpersIdle
    /\ SessionsIdle
    /\ ReportIdle
    /\ RaceIdle

\* POST /classify
Classify ==
    /\ pc = "start"
    /\ classified' = classify(classify_in.description, classify_in.amount,
                              classify_in.from_account_type,
                              classify_in.to_account_type)
    /\ pc' = "classified"
    /\ UNCHANGED << classify_in, hints >>
    /\ UNCHANGED << txn, txn_id, errors, result, impacts, generated, strict >>
    /\ UNCHANGED << dbVars, helperVars, sessionVars, reportVars, raceVars >>

\* GET /ux-hints
GetUxHints ==
    /\ pc = "start"
    /\ \E ty \in TransactionType : \E nature \in TransactionNature :
          hints' = [ transaction_type |-> ty, transaction_nature |-> nature,
                     hints |-> get_ux_hints(ty, nature) ]
    /\ pc' = "hinted"
    /\ UNCHANGED << classify_in, classified >>
    /\ UNCHANGED << txn, txn_id, errors, result, impacts, generated, strict >>
    /\ UNCHANGED << dbVars, helperVars, sessionVars, reportVars, raceVars >>

ClassifierNext == Classify \/ GetUxHints

ClassifierSpec == ClassifierInit /\ [][ClassifierNext]_vars

(* ---------------------------------------------------------------------- *)
(* routes.py: two requests handled at the same time, each in the session   *)
(* get_db gives it (its own engine and connection on the one SQLite file). *)
(* SQLite lets one connection write at a time: the INSERT of db.flush()    *)
(* takes the write lock, held until commit or rollback.  A session keeps   *)
(* the Account objects it has loaded in its identity map, and              *)
(* db.query(Account).get(id) returns the loaded object without reading the *)
(* database again.                                                         *)
(* ---------------------------------------------------------------------- *)

Sessions == {1, 2}

\* amounts whose sums are exact floats
RaceAmounts == {2, 4}

\* transfers between the two accounts, in either direction
RacePayloads ==
    { p \in [ transaction_type : {"transfer"},
              transaction_nature : {"internal_transfer", "cc_bill_payment"},
              amount : RaceAmounts, from_account_id : ExistingIds,
              to_account_id : ExistingIds, category : {NoneStr},
              counterparty : {NoneStr}, date : PayloadDates ] :
        p.from_account_id # p.to_account_id }

\* the connection of session s holds the write lock of the database file
HoldsWriteLock(s) == sessions[s].pc \in {"flushed", "added", "updated"}

\* the Account objects the lookups of a request load into the identity map
IdentityMap(accts, payload) ==
    [ id \in { i \in {payload.from_account_id, payload.to_account_id} :
                 Found(accts, i) } |-> accts[id] ]

\* what db.query(Account).get(id) gives _update_account_balances: the objects
\* of the identity map as they were loaded, whatever was committed since
refreshed(loaded, accts) == loaded

\* the account lookups (404) and the strict validation (422)
RaceLookup(s, payload) ==
    /\ sessions[s].pc = "idle"
    /\ IF \/ (TruthyId(payload.from_account_id)
                /\ ~Found(accounts, payload.from_account_id))
          \/ (TruthyId(payload.to_account_id)
                /\ ~Found(accounts, payload.to_account_id))
       THEN sessions' = [sessions EXCEPT ![s] =
                [NoSession EXCEPT !.pc = "rejected", !.status = 404,
                                  !.payload = payload]]
       ELSE
         LET from_acct_type == ResolvedType(accounts, payload.from_account_id)
             to_acct_type == ResolvedType(accounts, payload.to_account_id)
             txn_input == TransactionInput(
                 payload.transaction_type, payload.transaction_nature,
                 payload.amount, payload.from_account_id, payload.to_account_id,
                 from_acct_type, to_acct_type,
                 payload.category, payload.counterparty)
         IN  IF validate_transaction(txn_input).raised
             THEN sessions' = [sessions EXCEPT ![s] =
                      [NoSession EXCEPT !.pc = "rejected", !.status = 422,
                                        !.payload = payload]]
             ELSE sessions' = [sessions EXCEPT ![s] =
                      [ pc |-> "validated", status |-> 0, payload |-> payload,
                        labels |-> <<from_acct_type, to_acct_type>>,
                        row |-> <<>>, rows |-> <<>>,
                        balances |-> IdentityMap(accounts, payload) ]]
    /\ UNCHANGED dbVars
    /\ UNCHANGED << libVars, helperVars, sessionVars, reportVars, classifierVars >>

\* db.add(txn); db.flush(): the INSERT waits for the write lock and takes it
RaceFlush(s) ==
    /\ sessions[s].pc = "validated"
    /\ \A o \in Sessions \ {s} : ~HoldsWriteLock(o)
    /\ sessions' = [sessions EXCEPT
                       ![s].pc = "flushed",
                       ![s].row = TransactionRow(Len(transactions) + 1,
                                                 sessions[s].payload)]
    /\ UNCHANGED dbVars
    /\ UNCHANGED << libVars, helperVars, sessionVars, reportVars, classifierVars >>

\* db.flush() while the other connection keeps the lock past the busy
\* timeout: OperationalError (database is locked), the request ends with 500
RaceBusy(s) ==
    /\ sessions[s].pc = "validated"
    /\ \E o \in Sessions \ {s} : HoldsWriteLock(o)
    /\ sessions' = [sessions EXCEPT ![s].pc = "raised", ![s].status = 500]
    /\ UNCHANGED dbVars
    /\ UNCHANGED << libVars, helperVars, sessionVars, reportVars, classifierVars >>

\* _ledger.create_entries(...) and the db.add(le) loop
RaceGenerate(s) ==
    /\ sessions[s].pc = "flushed"
    /\ LET sess == sessions[s]
           made == create_entries(
               sess.row.id, sess.payload.transaction_type,
               sess.payload.transaction_nature, sess.payload.amount,
               sess.payload.to_account_id, sess.labels[2],
               sess.payload.from_account_id, sess.labels[1])
       IN  IF made.raised
           THEN sessions' = [sessions EXCEPT ![s].pc = "raised",
                                             ![s].status = 500]
           ELSE sessions' = [sessions EXCEPT
                                ![s].pc = "added",
                                ![s].rows = LedgerEntryRows(made.entries)]
    /\ UNCHANGED dbVars
    /\ UNCHANGED << libVars, helperVars, sessionVars, reportVars, classifierVars >>

\* _update_account_balances(db, txn), on the objects get(id) returns
RaceUpdate(s) ==
    /\ sessions[s].pc = "added"
    /\ sessions' = [sessions EXCEPT
                       ![s].pc = "updated",
                       ![s].balances = update_account_balances(
                           refreshed(sessions[s].balances, accounts),
                           sessions[s].row)]
    /\ UNCHANGED dbVars
    /\ UNCHANGED << libVars, helperVars, sessionVars, reportVars, classifierVars >>

\* db.commit(): the row, the ledger rows and an UPDATE of each changed Account
\* to the balance the session computed; the write lock is released
RaceCommit(s) ==
    /\ sessions[s].pc = "updated"
    /\ transactions' = Append(transactions, sessions[s].row)
    /\ ledger' = ledger \o sessions[s].rows
    /\ accounts' = [ id \in DOMAIN accounts |->
                       IF id \in DOMAIN sessions[s].balances
                       THEN sessions[s].balances[id]
                       ELSE accounts[id] ]
    /\ sessions' = [sessions EXCEPT ![s].pc = "committed", ![s].status = 201]
    /\ UNCHANGED << libVars, helperVars, sessionVars, reportVars, classifierVars >>

\* the finally of get_db: db.close() rolls back what was not committed
RaceClose(s) ==
    /\ sessions[s].pc \in {"rejected", "raised", "committed"}
    /\ sessions' = [sessions EXCEPT ![s].pc = "closed"]
    /\ UNCHANGED dbVars
    /\ UNCHANGED << libVars, helperVars, sessionVars, reportVars, classifierVars >>

RaceInit ==
    /\ pc = "idle"
    /\ txn = IdleIntent
    /\ txn_id = 0
    /\ errors = <<>>
    /\ result = NotCalled
    /\ impacts = <<>>
    /\ generated = <<>>
    /\ strict = NotValidated
    /\ accounts \in { [id \in ExistingIds |->
                        [account_type |-> IF id = 1 THEN "savings" ELSE label,
                         balance |-> 0]] : label \in {"savings", "credit_card"} }
    /\ transactions = <<>>
    /\ ledger = <<>>
    /\ sessions = [s \in Sessions |-> NoSession]
    /\ HelpersIdle
    /\ SessionsIdle
    /\ ReportIdle
    /\ ClassifierIdle

RaceNext ==
    \E s \in Sessions :
        \/ \E payload \in RacePayloads : RaceLookup(s, payload)
        \/ RaceFlush(s)
        \/ RaceBusy(s)
        \/ RaceGenerate(s)
        \/ RaceUpdate(s)
        \/ RaceCommit(s)
        \/ RaceClose(s)

RaceSpec == RaceInit /\ [][RaceNext]_vars

(* ---------------------------------------------------------------------- *)
(* migrate.py: the one-time migration of a legacy database.  The schema    *)
(* changes of step 1 add columns that are NULL in every row; the model     *)
(* starts with those columns in place.  The loops of steps 3 and 4 treat   *)
(* each row on its own, and the model migrates a table of one row.         *)
(* ---------------------------------------------------------------------- *)

\* a type string of no TransactionType, as the legacy endpoints accept
LegacyTypes == TransactionType \cup {"investment"}
LegacyDescriptions == {"salary", "loan to bob", "netflix", "coffee"}

\* the rows a legacy table may hold: with or without a nature, an account
\* and endpoints, deleted or not
LegacyRows ==
    [ id : {1}, transaction_type : LegacyTypes,
      transaction_nature : {NoneStr, "salary"},
      description : LegacyDescriptions, amount : LegacyAmounts,
      account_id : {NoneId, 1}, from_account_id : {NoneId, 2},
      to_account_id : {NoneId, 2}, date : {1}, is_deleted : BOOLEAN ]

\* step 2, for one account
migrate_account(acct) ==
    IF ~TruthyStr(acct.accounting_type)
    THEN [acct EXCEPT !.accounting_type = infer_accounting_type(acct.account_type)]
    ELSE acct

\* the body of the loop of step 3, for one row the query returned
migrate_nature(row) ==
    LET res == classify(row.description, row.amount, NoneStr, NoneStr)
        ty == row.transaction_type
        nature ==
            IF ty = "transfer" THEN res.transaction_nature
            ELSE IF ty = "income"
            THEN IF res.transaction_type # "income" THEN "other_income"
                 ELSE res.transaction_nature
            ELSE IF ty = "expense"
            THEN IF res.transaction_type # "expense" THEN "other_expense"
                 ELSE res.transaction_nature
            ELSE res.transaction_nature
        has_account == TruthyId(row.account_id)
        from_id == IF ty = "expense" /\ has_account THEN row.account_id
                   ELSE IF /\ ty = "transfer"
                           /\ has_account
                           /\ ~TruthyId(row.from_account_id)
                   THEN row.account_id
                   ELSE row.from_account_id
        to_id == IF ty = "income" /\ has_account THEN row.account_id
                 ELSE IF /\ ty = "transfer"
                         /\ has_account
                         /\ ~TruthyId(row.to_account_id)
                 THEN row.account_id
                 ELSE row.to_account_id
    IN  IF TruthyStr(row.transaction_nature) THEN row
        ELSE [row EXCEPT
                 !.transaction_nature =
                     IF ty = "transfer" /\ has_account /\ from_id = to_id
                     THEN "internal_transfer"
                     ELSE nature,
                 !.from_account_id = from_id,
                 !.to_account_id = to_id]

\* the body of the loop of step 4, for one row: the ledger rows it adds; an
\* exception (a type of no TransactionType, an imbalance) is logged and adds
\* nothing
migrate_ledger(accts, entries, row) ==
    LET from_type == IF Found(accts, row.from_account_id)
                     THEN accts[row.from_account_id].account_type ELSE NoneStr
        to_type == IF Found(accts, row.to_account_id)
                   THEN accts[row.to_account_id].account_type ELSE NoneStr
        nature == IF TruthyStr(row.transaction_nature)
                  THEN row.transaction_nature ELSE "adjustment"
        made == create_entries(row.id, row.transaction_type, nature,
                               FAbs(row.amount), row.to_account_id, to_type,
                               row.from_account_id, from_type)
    IN  IF Len(RowsOfTransaction(entries, row.id)) > 0 THEN <<>>
        ELSE IF row.transaction_type \notin TransactionType THEN <<>>
        ELSE IF made.raised THEN <<>>
        ELSE LedgerEntryRows(made.entries)

RECURSIVE ledger_backfill(_, _, _)
\* step 4 over the rows the query of step 3 returned, in order
ledger_backfill(accts, entries, rows) ==
    IF rows = <<>> THEN entries
    ELSE ledger_backfill(accts,
                         entries \o migrate_ledger(accts, entries, Head(rows)),
                         Tail(rows))

\* a legacy database: two accounts, one transaction, and either no ledger
\* entry or the two entries of that transaction
MigrateInit ==
    /\ pc = "start"
    /\ accounts \in { [id \in ExistingIds |->
                         [account_type |-> IF id = 1 THEN "savings" ELSE "credit_card",
                          balance |-> 0,
                          accounting_type |-> IF id = 1 THEN known ELSE NoneStr]] :
                      known \in {NoneStr, "asset"} }
    /\ transactions \in { <<row>> : row \in LegacyRows }
    /\ ledger \in { <<>>,
                    << [transaction_id |-> 1, account_id |-> 1,
                        debit |-> Cent, credit |-> 0],
                       [transaction_id |-> 1, account_id |-> NoneId,
                        debit |-> 0, credit |-> Cent] >> }
    /\ txn = IdleIntent
    /\ txn_id = 0
    /\ errors = <<>>
    /\ result = NotCalled
    /\ impacts = <<>>
    /\ generated = <<>>
    /\ strict = NotValidated
    /\ HelpersIdle
    /\ SessionsIdle
    /\ OthersIdle

\* step 2: back-fill accounting_type, commit
MigrateAccounts ==
    /\ pc = "start"
    /\ accounts' = [id \in DOMAIN accounts |-> migrate_account(accounts[id])]
    /\ pc' = "accounts"
    /\ UNCHANGED << transactions, ledger >>
    /\ UNCHANGED << txn, txn_id, errors, result, impacts, generated, strict >>
    /\ UNCHANGED << helperVars, sessionVars, otherVars >>

\* step 3: give a nature (and endpoints) to the rows that are not deleted,
\* commit
MigrateNatures ==
    /\ pc = "accounts"
    /\ transactions' = [k \in 1..Len(transactions) |->
                           IF transactions[k].is_deleted THEN transactions[k]
                           ELSE migrate_nature(transactions[k])]
    /\ pc' = "natures"
    /\ UNCHANGED << accounts, ledger >>
    /\ UNCHANGED << txn, txn_id, errors, result, impacts, generated, strict >>
    /\ UNCHANGED << helperVars, sessionVars, otherVars >>

\* step 4: ledger entries for the same rows, where there are none, commit
MigrateLedger ==
    /\ pc = "natures"
    /\ ledger' = ledger_backfill(accounts, ledger,
                     SelectSeq(transactions, LAMBDA r : ~r.is_deleted))
    /\ pc' = "done"
    /\ UNCHANGED << accounts, transactions >>
    /\ UNCHANGED << txn, txn_id, errors, result, impacts, generated, strict >>
    /\ UNCHANGED << helperVars, sessionVars, otherVars >>

MigrateNext == MigrateAccounts \/ MigrateNatures \/ MigrateLedger

MigrateSpec == MigrateInit /\ [][MigrateNext]_vars

(* ---------------------------------------------------------------------- *)
(* Properties of the library (specification Spec)                         *)
(* ---------------------------------------------------------------------- *)

\* |total debit - total credit| of a list of entries, without rounding
Imbalance(entries) ==
    LET d == ExactSum(Debits(entries)) - ExactSum(Credits(entries))
    IN  IF d < 0 THEN 0 - d ELSE d

IsDebitOf(e, amount) == e.debit = amount /\ e.credit = 0
IsCreditOf(e, amount) == e.credit = amount /\ e.debit = 0

\* C1: for every intent on which soft validation returns no violations,
\* create_entries returns (does not raise) entries whose total debit and
\* total credit differ by less than 0.001.
C1_ValidIntentBalanced ==
    (pc = "generated" /\ errors = <<>>) =>
        (~result.raised /\ Imbalance(result.entries) < Tol)

\* C2: for any inputs, create_entries never returns entries whose total debit
\* and total credit differ by more than 0.001; entries that differ by more
\* make it raise, and a call that raises returns no entries.
C2_NeverReturnsUnbalanced ==
    pc = "generated" =>
        /\ ~result.raised => Imbalance(result.entries) <= Tol
        /\ Imbalance(generated) > Tol => result.raised
        /\ result.raised => result.entries = <<>>

\* a call on an intent that validation rejects raised the imbalance error
C2_Witness ==
    /\ pc = "generated"
    /\ result.raised
    /\ errors # <<>>
    /\ Imbalance(generated) > Tol

\* C3: for every type, nature and combination of present or absent account
\* ids and labels, a call that returns yields exactly two entries, both with
\* the transaction_id passed in.
C3_TwoEntriesOfTheTransaction ==
    (pc = "generated" /\ ~result.raised) =>
        /\ Len(result.entries) = 2
        /\ \A i \in 1..Len(result.entries) :
              result.entries[i].transaction_id = txn_id

\* a transfer with neither account id nor label returned its two entries
C3_Witness ==
    /\ pc = "generated"
    /\ ~result.raised
    /\ txn.transaction_type = "transfer"
    /\ txn.from_account_id = NoneId /\ txn.to_account_id = NoneId
    /\ txn.from_account_type = NoneStr /\ txn.to_account_type = NoneStr
    /\ Len(result.entries) = 2

\* C4: every entry returned for an amount > 0 has exactly one of debit and
\* credit non-zero: that side is the amount, the other is 0, none negative.
C4_OneSidedEntries ==
    (pc = "generated" /\ ~result.raised /\ txn.amount > 0) =>
        \A i \in 1..Len(result.entries) :
            LET e == result.entries[i]
            IN  /\ (IsDebitOf(e, txn.amount) \/ IsCreditOf(e, txn.amount))
                /\ e.debit >= 0 /\ e.credit >= 0
                /\ (e.debit = 0) # (e.credit = 0)

\* a liability-to-asset card payment of a positive amount returned entries
C4_Witness ==
    /\ pc = "generated"
    /\ ~result.raised
    /\ txn.amount > 0
    /\ txn.transaction_type = "transfer"
    /\ txn.transaction_nature = "cc_bill_payment"
    /\ EndpointClass(txn.from_account_type) = "liability"
    /\ Len(result.entries) = 2

\* the (nature, from class, to class) shapes the class-pair rule accepts for
\* the five natures of C8
AcceptedShapes ==
    { <<"internal_transfer", "asset", "asset">>,
      <<"cc_bill_payment", "asset", "liability">>,
      <<"loan_given", "asset", "receivable">>,
      <<"loan_received", "payable", "asset">>,
      <<"loan_repaid", "receivable", "asset">>,
      <<"loan_repaid", "asset", "payable">> }

TxnShape == << txn.transaction_nature,
               EndpointClass(txn.from_account_type),
               EndpointClass(txn.to_account_type) >>

\* C8: for every Transfer whose nature and endpoint classes form a shape that
\* validation accepts (InternalTransfer, CcBillPayment, LoanGiven,
\* LoanReceived, LoanRepaid), the entry on from_account is a credit of the
\* amount with debit 0 and the entry on to_account a debit with credit 0.
C8_FromCreditedToDebited ==
    (pc = "generated" /\ txn.transaction_type = "transfer"
        /\ TxnShape \in AcceptedShapes) =>
        /\ ~result.raised
        /\ Len(result.entries) = 2
        /\ result.entries[1].account_id = OrZero(txn.from_account_id)
        /\ IsCreditOf(result.entries[1], txn.amount)
        /\ result.entries[2].account_id = OrZero(txn.to_account_id)
        /\ IsDebitOf(result.entries[2], txn.amount)

\* a validated Asset-to-Liability card payment between real accounts
C8_Witness ==
    /\ pc = "generated"
    /\ errors = <<>>
    /\ txn.transaction_type = "transfer"
    /\ txn.transaction_nature = "cc_bill_payment"
    /\ txn.from_account_type = "savings" /\ txn.to_account_type = "credit_card"
    /\ txn.from_account_id = 1 /\ txn.to_account_id = 2
    /\ txn.amount = 3
    /\ ~result.raised

\* the table of section 4.4
ExpectedImpacts(nature, from_class) ==
    CASE nature = "internal_transfer" -> <<FALSE, TRUE>>
      [] nature = "cc_bill_payment" -> <<FALSE, FALSE>>
      [] nature = "loan_given" -> <<FALSE, TRUE>>
      [] nature = "loan_received" -> <<TRUE, TRUE>>
      [] nature = "loan_repaid" /\ from_class = "receivable" -> <<FALSE, TRUE>>
      [] nature = "loan_repaid" /\ from_class # "receivable" -> <<FALSE, FALSE>>
      [] OTHER -> <<FALSE, TRUE>>

\* C9: for every nature and pair of endpoint classes the resolver returns
\* (from_increases, to_increases) as in the table: InternalTransfer (F,T);
\* CcBillPayment (F,F); LoanGiven (F,T); LoanReceived (T,T); LoanRepaid (F,T)
\* from a Receivable and (F,F) from any other class; every other nature (F,T).
C9_ImpactTable ==
    (pc = "generated" /\ txn.transaction_type = "transfer") =>
        impacts = ExpectedImpacts(txn.transaction_nature,
                                  EndpointClass(txn.from_account_type))

\* the resolver ran on a repayment from a Receivable to a Receivable, and on
\* a nature that is no transfer nature at all
C9_Witness ==
    /\ pc = "generated"
    /\ txn.transaction_type = "transfer"
    /\ \/ /\ txn.transaction_nature = "loan_repaid"
          /\ txn.from_account_type = "receivable"
          /\ txn.to_account_type = "receivable"
          /\ impacts = <<FALSE, TRUE>>
       \/ /\ txn.transaction_nature = "salary"
          /\ impacts = <<FALSE, TRUE>>

\* what C10 asks of one endpoint's entry
DebitCreditRule(e, class, increases, amount) ==
    IF (class \in {"asset", "receivable"}) = increases
    THEN IsDebitOf(e, amount)
    ELSE IsCreditOf(e, amount)

\* C10: an increase entry is a debit of the amount (credit 0) for Asset and
\* Receivable and a credit (debit 0) for Liability and Payable; a decrease
\* entry is the exact mirror.
C10_IncreaseDecreaseMapping ==
    (pc = "generated" /\ txn.transaction_type = "transfer") =>
        /\ Len(generated) = 2
        /\ DebitCreditRule(generated[1], EndpointClass(txn.from_account_type),
                           impacts[1], txn.amount)
        /\ DebitCreditRule(generated[2], EndpointClass(txn.to_account_type),
                           impacts[2], txn.amount)

\* a loan received from a Payable into a Receivable: an increase on each side
\* of the rule
C10_Witness ==
    /\ pc = "generated"
    /\ txn.transaction_type = "transfer"
    /\ txn.transaction_nature = "loan_received"
    /\ txn.from_account_type = "payable"
    /\ txn.to_account_type = "receivable"
    /\ txn.amount = 3
    /\ impacts = <<TRUE, TRUE>>
    /\ IsCreditOf(generated[1], 3)
    /\ IsDebitOf(generated[2], 3)

\* C11: for Income, create_entries returns a debit of the amount on
\* to_account_id (account 0 when none is given) and a credit of the amount on
\* virtual account 0; for Expense a debit of the amount on virtual account 0
\* and a credit of the amount on from_account_id (account 0 when none is
\* given); neither depends on the nature or on the account-type labels.
C11_IncomeExpenseEntries ==
    pc = "generated" =>
        /\ txn.transaction_type = "income" =>
              /\ ~result.raised
              /\ result.entries =
                    << [transaction_id |-> txn_id,
                        account_id |-> IF txn.to_account_id = NoneId
                                       THEN 0 ELSE txn.to_account_id,
                        debit |-> txn.amount, credit |-> 0],
                       [transaction_id |-> txn_id, account_id |-> 0,
                        debit |-> 0, credit |-> txn.amount] >>
        /\ txn.transaction_type = "expense" =>
              /\ ~result.raised
              /\ result.entries =
                    << [transaction_id |-> txn_id, account_id |-> 0,
                        debit |-> txn.amount, credit |-> 0],
                       [transaction_id |-> txn_id,
                        account_id |-> IF txn.from_account_id = NoneId
                                       THEN 0 ELSE txn.from_account_id,
                        debit |-> 0, credit |-> txn.amount] >>

\* an Expense with a transfer nature, a liability label and no from_account
\* returned its debit on the virtual account and its credit on account 0
C11_Witness ==
    /\ pc = "generated"
    /\ txn.transaction_type = "expense"
    /\ txn.transaction_nature = "cc_bill_payment"
    /\ txn.from_account_type = "credit_card"
    /\ txn.from_account_id = NoneId
    /\ txn.to_account_id = 2
    /\ txn.amount = 3
    /\ ~result.raised
    /\ result.entries[1].account_id = 0 /\ IsDebitOf(result.entries[1], 3)
    /\ result.entries[2].account_id = 0 /\ IsCreditOf(result.entries[2], 3)

LoanNatures == {"loan_given", "loan_received", "loan_repaid"}

AllClassPairs == AccountingType \X AccountingType

\* the (from class, to class) pairs a nature requires of a Transfer
RequiredShape(nature) ==
    CASE nature = "internal_transfer" -> { <<"asset", "asset">> }
      [] nature = "cc_bill_payment" -> { <<"asset", "liability">> }
      [] nature = "loan_given" -> { <<"asset", "receivable">> }
      [] nature = "loan_received" -> { <<"payable", "asset">> }
      [] nature = "loan_repaid" -> { <<"receivable", "asset">>,
                                     <<"asset", "payable">> }
      [] nature = "reimbursement_received" ->
             { <<c, "asset">> : c \in AccountingType }
      [] OTHER -> AllClassPairs

Present(s) == s # NoneStr /\ s # ""

BothLabelsPresent(t) ==
    Present(t.from_account_type) /\ Present(t.to_account_type)

ClassPairOf(t) == << infer_accounting_type(t.from_account_type),
                     infer_accounting_type(t.to_account_type) >>

\* the eight rules, as the claims word them
Rules == {"amount", "nature", "category", "income_from", "both_accounts",
          "counterparty", "class_pair", "expense_receivable"}

RuleViolated(rule, t) ==
    CASE rule = "amount" -> t.amount <= 0
      [] rule = "nature" ->
             t.transaction_nature \notin
                (CASE t.transaction_type = "income" -> IncomeNatures
                   [] t.transaction_type = "expense" -> ExpenseNatures
                   [] t.transaction_type = "transfer" -> TransferNatures)
      [] rule = "category" ->
             t.transaction_type = "expense" /\ ~Present(t.category)
      [] rule = "income_from" ->
             t.transaction_type = "income" /\ t.from_account_id # NoneId
      [] rule = "both_accounts" ->
             /\ t.transaction_type = "transfer"
             /\ (t.from_account_id = NoneId \/ t.to_account_id = NoneId)
      [] rule = "counterparty" ->
             t.transaction_nature \in LoanNatures /\ ~Present(t.counterparty)
      [] rule = "class_pair" ->
             /\ t.transaction_type = "transfer"
             /\ BothLabelsPresent(t)
             /\ ClassPairOf(t) \notin RequiredShape(t.transaction_nature)
      [] rule = "expense_receivable" ->
             /\ t.transaction_type = "expense"
             /\ Present(t.to_account_type)
             /\ infer_accounting_type(t.to_account_type) = "receivable"

\* the rule a message belongs to
RuleOfMessage(m) ==
    CASE m[1] = "Amount must be positive." -> "amount"
      [] m[1] = "Nature is not valid for type." -> "nature"
      [] m[1] = "EXPENSE transactions require a category." -> "category"
      [] m[1] = "INCOME transactions must not have a from_account (money flows inward)."
             -> "income_from"
      [] m[1] = "TRANSFER transactions require both from_account and to_account."
             -> "both_accounts"
      [] m[1] = "Loan transactions require a counterparty name." -> "counterparty"
      [] m[1] = "Cannot route an EXPENSE to a RECEIVABLE account."
             -> "expense_receivable"
      [] OTHER -> "class_pair"

Reported(rule, errs) == \E i \in 1..Len(errs) : RuleOfMessage(errs[i]) = rule

\* C13: for every intent, validate_transaction_soft returns exactly one
\* message per violated rule and nothing else: the list is empty iff no rule
\* is violated, and each violated rule is reported whichever other rules are
\* violated too.
C13_OneMessagePerViolatedRule ==
    pc = "validated" =>
        /\ \A rule \in Rules : Reported(rule, errors) <=> RuleViolated(rule, txn)
        /\ Len(errors) = Cardinality({rule \in Rules : RuleViolated(rule, txn)})
        /\ (errors = <<>>) <=> (\A rule \in Rules : ~RuleViolated(rule, txn))

\* an expense that violates five rules at once got its five messages
C13_Witness ==
    /\ pc = "validated"
    /\ txn.transaction_type = "expense"
    /\ Len(errors) = 5
    /\ {rule \in Rules : RuleViolated(rule, txn)}
          = {"amount", "nature", "category", "counterparty", "expense_receivable"}

\* C14: for a Transfer whose two account-type labels are both present,
\* validation reports a class-pair violation exactly when (from class, to
\* class) is not the nature's required shape; Adjustment is never constrained,
\* and no class-pair violation is reported when a label is absent or the type
\* is not Transfer.
C14_ClassPairRule ==
    pc = "validated" =>
        /\ (txn.transaction_type = "transfer" /\ BothLabelsPresent(txn)) =>
              (Reported("class_pair", errors)
                  <=> ClassPairOf(txn) \notin RequiredShape(txn.transaction_nature))
        /\ txn.transaction_nature = "adjustment" => ~Reported("class_pair", errors)
        /\ (txn.transaction_type # "transfer" \/ ~BothLabelsPresent(txn)) =>
              ~Reported("class_pair", errors)

\* a repayment from an Asset to a Payable passed the class-pair rule, the
\* second of its two accepted shapes
C14_Witness ==
    /\ pc = "validated"
    /\ txn.transaction_type = "transfer"
    /\ txn.transaction_nature = "loan_repaid"
    /\ txn.from_account_type = "savings"
    /\ txn.to_account_type = "payable"
    /\ ~Reported("class_pair", errors)

\* C15: for every intent whose nature is LoanGiven, LoanReceived or
\* LoanRepaid, whatever its type, validation returns the counterparty-required
\* message iff counterparty is empty or absent; an otherwise valid LoanGiven
\* Asset-to-Receivable transfer passes only if counterparty is set.
C15_LoanNeedsCounterparty ==
    (pc = "validated" /\ txn.transaction_nature \in LoanNatures) =>
        /\ Reported("counterparty", errors) <=> txn.counterparty \in {NoneStr, ""}
        /\ errors = <<>> => txn.counterparty \notin {NoneStr, ""}

\* an Income carrying a loan nature and an empty counterparty was told so
C15_Witness ==
    /\ pc = "validated"
    /\ txn.transaction_type = "income"
    /\ txn.transaction_nature = "loan_given"
    /\ txn.counterparty = ""
    /\ Reported("counterparty", errors)

\* C16: validate_transaction raises ValidationError exactly when
\* validate_transaction_soft returns a non-empty list; the raised error's
\* errors list is the soft list, message for message in the same order; when
\* the soft list is empty the strict variant returns an empty list.
C16_StrictMatchesSoft ==
    pc = "strict" =>
        /\ strict.raised <=> errors # <<>>
        /\ strict.errors = errors
        /\ errors = <<>> => (~strict.raised /\ strict.errors = <<>>)

\* the strict variant raised on an intent that violates exactly one rule
C16_Witness ==
    /\ pc = "strict"
    /\ strict.raised
    /\ Len(errors) = 1
    /\ strict.errors = errors

\* the types whose allowed set holds a nature
TypesOf(nature) ==
    {t \in TransactionType : is_valid_nature_for_type(t, nature)}

\* C17: the nature-to-type mapping is a total, non-overlapping partition:
\* every nature is in the allowed set of exactly one type, so
\* is_valid_nature_for_type(type, nature) is true for exactly one type per
\* nature (and the nature rule of validation accepts that type only).
C17_NaturePartition ==
    pc = "validated" =>
        /\ \A nature \in TransactionNature : Cardinality(TypesOf(nature)) = 1
        /\ Cardinality(TypesOf(txn.transaction_nature)) = 1
        /\ ~Reported("nature", errors)
              <=> TypesOf(txn.transaction_nature) = {txn.transaction_type}

\* a refund was accepted as an Income
C17_Witness ==
    /\ pc = "validated"
    /\ txn.transaction_nature = "refund"
    /\ txn.transaction_type = "income"
    /\ ~Reported("nature", errors)
    /\ TypesOf("refund") = {"income"}

\* C27: an intent of type Transfer that passes validation has one of the
\* seven natures the resolver handles by a branch of its own; generation after
\* validation never takes the resolver's final else.
C27_NoDefaultBranch ==
    (pc = "generated" /\ errors = <<>> /\ txn.transaction_type = "transfer") =>
        /\ txn.transaction_nature \in TransferNatures
        /\ transfer_impacts_branch(txn.transaction_nature) = txn.transaction_nature
        /\ impacts = get_transfer_impacts(txn.transaction_nature,
                                          EndpointClass(txn.from_account_type),
                                          EndpointClass(txn.to_account_type))

\* a reimbursement received between two accounts passed validation and was
\* generated through the branch of that nature
C27_Witness ==
    /\ pc = "generated"
    /\ errors = <<>>
    /\ txn.transaction_type = "transfer"
    /\ txn.transaction_nature = "reimbursement_received"
    /\ transfer_impacts_branch(txn.transaction_nature) = "reimbursement_received"
    /\ impacts = <<FALSE, TRUE>>

(* ---------------------------------------------------------------------- *)
(* Properties of the committed ledger (specification LedgerSpec)          *)
(* ---------------------------------------------------------------------- *)

\* the ledger as it was when the first k transactions had been committed
\* (every committed transaction contributes exactly two rows)
LedgerAfter(k) == SubSeq(ledger, 1, 2 * k)

ClassOf(id) == infer_accounting_type(accounts[id].account_type)
DebitNormal(id) == ClassOf(id) \in {"asset", "receivable"}

\* the class-aware ledger balance of an account
BalanceOf(entries, id) == account_balance_from_entries(entries, id, ClassOf(id))

RECURSIVE PlainSum(_, _)
\* the sum of the class-aware balances of the accounts in ids
PlainSum(entries, ids) ==
    IF ids = {} THEN 0
    ELSE LET id == CHOOSE x \in ids : TRUE
         IN  BalanceOf(entries, id) + PlainSum(entries, ids \ {id})

RECURSIVE NetWorth(_, _)
\* Asset and Receivable balances minus Liability and Payable balances
NetWorth(entries, ids) ==
    IF ids = {} THEN 0
    ELSE LET id == CHOOSE x \in ids : TRUE
             b == BalanceOf(entries, id)
         IN  (IF DebitNormal(id) THEN b ELSE 0 - b)
                + NetWorth(entries, ids \ {id})

\* the float totals behind an account's balance carry no rounding error
ExactTotals(entries, id) ==
    LET es == EntriesOf(entries, id)
        d == PySum(Debits(es))
        c == PySum(Credits(es))
    IN  /\ d = ExactSum(Debits(es))
        /\ c = ExactSum(Credits(es))
        /\ FSub(d, c) = d - c
        /\ FSub(c, d) = c - d

ExactOn(entries, ids) == \A id \in ids : ExactTotals(entries, id)

Endpoints(k) ==
    {transactions[k].from_account_id, transactions[k].to_account_id}

\* the accounts the transactions i..j touch
Affected(i, j) == UNION { Endpoints(k) : k \in i..j }

\* C5: for every Transfer-type transaction between two real accounts for
\* which create_entries returned, net worth computed from the ledger (Asset
\* and Receivable balances minus Liability and Payable balances) is the same
\* after its entries are appended as before, for any prior ledger.
C5_TransferKeepsNetWorth ==
    \A k \in 1..Len(transactions) :
        (/\ transactions[k].transaction_type = "transfer"
         /\ TruthyId(transactions[k].from_account_id)
         /\ TruthyId(transactions[k].to_account_id)) =>
            NetWorth(LedgerAfter(k), ExistingIds)
                = NetWorth(LedgerAfter(k - 1), ExistingIds)

NeutralNatures ==
    {"internal_transfer", "loan_given", "loan_received", "loan_repaid"}

NeutralRun(i, j) ==
    \A k \in i..j : transactions[k].transaction_nature \in NeutralNatures

BorrowThenRepay(k) ==
    /\ transactions[k].transaction_nature = "loan_received"
    /\ transactions[k + 1].transaction_nature = "loan_repaid"
    /\ ClassOf(transactions[k].from_account_id) = "payable"
    /\ ClassOf(transactions[k].to_account_id) = "asset"
    /\ transactions[k + 1].from_account_id = transactions[k].to_account_id
    /\ transactions[k + 1].to_account_id = transactions[k].from_account_id
    /\ transactions[k + 1].amount = transactions[k].amount

BalancesRestored(k) ==
    \A id \in Endpoints(k) :
        BalanceOf(LedgerAfter(k + 1), id) = BalanceOf(LedgerAfter(k - 1), id)

\* C7 as stated: for any amount and any prior ledger, a LoanReceived followed
\* by a LoanRepaid of the same amount on the same pair of accounts leaves the
\* balance of the asset and of the payable equal to its value before the borrow.
C7_RoundTripRestores ==
    \A k \in 1..(Len(transactions) - 1) :
        BorrowThenRepay(k) => BalancesRestored(k)

\* C7 amended: the round trip leaves both balances equal to their values
\* before the borrow whenever the float totals of the two accounts carry no
\* rounding error before the borrow and after the repayment.
C7_RoundTripRestoresExactTotals ==
    \A k \in 1..(Len(transactions) - 1) :
        (/\ BorrowThenRepay(k)
         /\ ExactOn(LedgerAfter(k + 1), Endpoints(k))
         /\ ExactOn(LedgerAfter(k - 1), Endpoints(k))) =>
            BalancesRestored(k)

\* a borrow and its repayment on top of an earlier transaction that left
\* both accounts a balance: both balances moved in between and are back
C7_Witness ==
    /\ Len(transactions) = 3
    /\ BorrowThenRepay(2)
    /\ ExactOn(LedgerAfter(3), Endpoints(2))
    /\ ExactOn(LedgerAfter(1), Endpoints(2))
    /\ \A id \in Endpoints(2) :
          /\ BalanceOf(LedgerAfter(1), id) # 0
          /\ BalanceOf(LedgerAfter(2), id) # BalanceOf(LedgerAfter(1), id)
          /\ BalanceOf(LedgerAfter(3), id) = BalanceOf(LedgerAfter(1), id)

\* C26: the changes _update_account_balances applies to the stored balance
\* of each account equal the changes the committed entries make to its
\* class-aware ledger balance: after any sequence of committed transactions
\* from zero balances and an empty ledger, the stored balance of every
\* account equals its balance derived from the ledger.
C26_StoredMatchesLedger ==
    \A id \in ExistingIds : accounts[id].balance = BalanceOf(ledger, id)

(* ---------------------------------------------------------------------- *)
(* Properties of the step-wise handler (specification SessionSpec)        *)
(* ---------------------------------------------------------------------- *)

\* the accounts table with every balance back at its initial 0.0
ZeroBalances(accts) ==
    [id \in DOMAIN accts |-> [accts[id] EXCEPT !.balance = 0]]

RECURSIVE BalancesAfter(_, _)
\* the balances after the balance changes of the given transaction rows
BalancesAfter(accts, rows) ==
    IF rows = <<>> THEN accts
    ELSE BalancesAfter(update_account_balances(accts, Head(rows)), Tail(rows))

\* the ledger rows of transaction id
RowsOf(rows, id) == SelectSeq(rows, LAMBDA e : e.transaction_id = id)

\* a database state in which every transaction is there as a whole: its row,
\* its two ledger entries and its balance changes, and nothing of any other
WholeTransactions(db) ==
    /\ \A k \in 1..Len(db.transactions) :
          Len(RowsOf(db.ledger, db.transactions[k].id)) = 2
    /\ \A i \in 1..Len(db.ledger) :
          \E k \in 1..Len(db.transactions) :
              db.transactions[k].id = db.ledger[i].transaction_id
    /\ db.accounts = BalancesAfter(ZeroBalances(db.accounts), db.transactions)

Committed ==
    [transactions |-> transactions, ledger |-> ledger, accounts |-> accounts]

\* C19: the transaction row, both ledger entries and the balance changes of a
\* request become visible to other sessions in a single commit: under any
\* interleaving with a concurrent reader, no committed state (and nothing the
\* reader has read) holds the row or one entry of a transaction without its
\* other entry and its balance changes.
C19_SingleCommit ==
    /\ WholeTransactions(Committed)
    /\ seen # <<>> => WholeTransactions(seen)

\* after one committed transaction, the reader read the database while a
\* second request held its flushed row, its two entries and its changed
\* balances uncommitted
C19_Witness ==
    /\ session.pc = "updated"
    /\ Len(session.rows) = 2
    /\ session.balances # accounts
    /\ Len(transactions) = 1
    /\ seen = Committed
    /\ \A k \in 1..Len(seen.transactions) :
          seen.transactions[k].id # session.row.id

\* nothing of transaction id is in the committed state
AbsentFromDb(id) ==
    /\ \A k \in 1..Len(transactions) : transactions[k].id # id
    /\ \A i \in 1..Len(ledger) : ledger[i].transaction_id # id
    /\ accounts = BalancesAfter(ZeroBalances(accounts), transactions)

\* C20: if create_entries raises the ledger-imbalance error inside the
\* handler, after the transaction row was added and flushed, the request ends
\* without committing: the row, any ledger entry and any balance change of
\* that request are absent from the committed state.
C20_RaiseCommitsNothing ==
    (session.pc \in {"raised", "closed"} /\ session.status = 500) =>
        AbsentFromDb(session.row.id)

\* after one committed transaction, a request whose row was flushed as id 2
\* raised and its session was closed: the database holds transaction 1 only
C20_Witness ==
    /\ session.pc = "closed"
    /\ session.status = 500
    /\ session.row.id = 2
    /\ Len(transactions) = 1
    /\ Len(ledger) = 2
    /\ AbsentFromDb(2)

\* the request names an account id that is not in the accounts table
MissingAccount(payload) ==
    \/ (TruthyId(payload.from_account_id)
          /\ payload.from_account_id \notin DOMAIN accounts)
    \/ (TruthyId(payload.to_account_id)
          /\ payload.to_account_id \notin DOMAIN accounts)

\* the violations of the request, on the labels of the accounts it names
ViolationsOf(payload) ==
    validate_transaction_soft(TransactionInput(
        payload.transaction_type, payload.transaction_nature, payload.amount,
        payload.from_account_id, payload.to_account_id,
        ResolvedType(accounts, payload.from_account_id),
        ResolvedType(accounts, payload.to_account_id),
        payload.category, payload.counterparty))

\* a step that takes up a request
TakesUpRequest ==
    session.pc \in {"idle", "closed"} /\ session'.pc \notin {"idle", "closed"}

\* C21: a request that names a missing account, or whose intent has a
\* violation, is rejected (404, 422) before anything is written: the step
\* that takes it up and every later step of that request leave the three
\* tables as they were, the session holds no transaction row and no ledger
\* row, and the request never reaches a position from which create_entries
\* is called.
C21_RejectedBeforeWrite ==
    [][ /\ (TakesUpRequest
              /\ (MissingAccount(session'.payload)
                    \/ ViolationsOf(session'.payload) # <<>>)) =>
                (/\ session'.pc = "rejected"
                 /\ session'.status =
                        IF MissingAccount(session'.payload) THEN 404 ELSE 422
                 /\ session'.row = <<>>
                 /\ session'.rows = <<>>
                 /\ UNCHANGED dbVars)
        /\ session.pc = "rejected" =>
                (/\ session'.pc \in {"rejected", "closed"}
                 /\ session'.row = <<>>
                 /\ session'.rows = <<>>
                 /\ UNCHANGED dbVars) ]_vars

\* after one committed transaction, a request with a violation answered 422
\* and its session was closed: the database still holds transaction 1 only
C21_Witness ==
    /\ session.pc = "closed"
    /\ session.status = 422
    /\ ~MissingAccount(session.payload)
    /\ ViolationsOf(session.payload) # <<>>
    /\ Len(transactions) = 1
    /\ Len(ledger) = 2

(* ---------------------------------------------------------------------- *)
(* Properties of the operations on transactions (specification ApiSpec)   *)
(* ---------------------------------------------------------------------- *)

\* C22: after any sequence of creations (accounting endpoint, legacy
\* add_transaction, import confirmation), edits, soft deletes and restores,
\* every committed transaction row has exactly two ledger entries, and their
\* total debits equal their total credits.
C22_EveryRowHasBalancedPair ==
    \A k \in 1..Len(transactions) :
        LET es == RowsOf(ledger, transactions[k].id)
        IN  /\ Len(es) = 2
            /\ PySum(Debits(es)) = PySum(Credits(es))

\* C23: the ledger is append-only across create, edit, soft delete and
\* restore: a step either leaves the ledger as it is, or keeps every entry in
\* place and appends exactly the two entries of the one transaction the step
\* adds.
C23_LedgerAppendOnly ==
    [][ \/ ledger' = ledger
        \/ /\ Len(transactions') = Len(transactions) + 1
           /\ SubSeq(transactions', 1, Len(transactions)) = transactions
           /\ Len(ledger') = Len(ledger) + 2
           /\ SubSeq(ledger', 1, Len(ledger)) = ledger
           /\ \A i \in (Len(ledger) + 1)..(Len(ledger) + 2) :
                 ledger'[i].transaction_id = transactions'[Len(transactions')].id
           /\ \A k \in 1..Len(transactions) :
                 transactions[k].id # transactions'[Len(transactions')].id ]_vars

\* a transaction created by the accounting endpoint for one cent was edited
\* to two cents and then soft-deleted: its two entries of one cent are there
C23_Witness ==
    \E k \in 1..Len(transactions) :
        /\ transactions[k].is_deleted
        /\ transactions[k].amount = 2 * Cent
        /\ Len(RowsOf(ledger, transactions[k].id)) = 2
        /\ \A i \in 1..2 :
              LET e == RowsOf(ledger, transactions[k].id)[i]
              IN  e.debit + e.credit = Cent

\* the total the report is said to give for a type: the amounts of the rows of
\* that type that are not deleted and dated in the period
TotalOfType(rows, start_date, end_date, type) ==
    round2(PySum(AbsAmounts(SelectSeq(rows, LAMBDA r :
        /\ ~r.is_deleted
        /\ r.date >= start_date
        /\ r.date <= end_date
        /\ r.transaction_type = type))))

WithoutTransfers(rows) ==
    SelectSeq(rows, LAMBDA r : r.transaction_type # "transfer")

\* C24: total_income and total_expenses of a report are the totals of the
\* non-deleted rows of the period whose type is income and expense, and they
\* are what the report gives on the table without its Transfer-type rows:
\* no transfer, of any nature, changes either total.
C24_TransfersOutsideTotals ==
    [][ summary' # summary =>
          LET start_date == summary'.start_date
              end_date == summary'.end_date
              rest == get_income_expense_summary(
                          WithoutTransfers(transactions), start_date, end_date)
          IN  /\ summary'.total_income =
                    TotalOfType(transactions, start_date, end_date, "income")
              /\ summary'.total_expenses =
                    TotalOfType(transactions, start_date, end_date, "expense")
              /\ summary'.total_income = rest.total_income
              /\ summary'.total_expenses = rest.total_expenses ]_vars

\* the table holds an income of one cent and a transfer, neither deleted and
\* both in the period, and the report on it gives one cent of income and no
\* expense
C24_Witness ==
    /\ summary # <<>>
    /\ summary = get_income_expense_summary(transactions, summary.start_date,
                                            summary.end_date)
    /\ summary.total_income = Cent
    /\ summary.total_expenses = 0
    /\ \E k \in 1..Len(transactions) :
          /\ transactions[k].transaction_type = "transfer"
          /\ ~transactions[k].is_deleted
          /\ transactions[k].date >= summary.start_date
          /\ transactions[k].date <= summary.end_date
    /\ \E k \in 1..Len(transactions) :
          /\ transactions[k].transaction_type = "income"
          /\ ~transactions[k].is_deleted

(* ---------------------------------------------------------------------- *)
(* Properties of the classifier and of the UX helper (ClassifierSpec)     *)
(* ---------------------------------------------------------------------- *)

\* C25: get_ux_hints returns show_category = (type is not Transfer),
\* require_both_accounts = (type is Transfer), affects_net_worth = (type is
\* Income or Expense) and require_counterparty = (nature is LoanGiven,
\* LoanReceived, LoanRepaid, ReimbursementPaid or ReimbursementReceived).
C25_UxHints ==
    pc = "hinted" =>
        /\ hints.hints.show_category <=> hints.transaction_type # "transfer"
        /\ hints.hints.require_both_accounts <=>
              hints.transaction_type = "transfer"
        /\ hints.hints.affects_net_worth <=>
              hints.transaction_type \in {"income", "expense"}
        /\ hints.hints.require_counterparty <=>
              hints.transaction_nature \in
                  {"loan_given", "loan_received", "loan_repaid",
                   "reimbursement_paid", "reimbursement_received"}

\* the hints of an expense that reimburses somebody: a category, no second
\* account, a counterparty, and net worth changes
C25_Witness ==
    /\ pc = "hinted"
    /\ hints.transaction_type = "expense"
    /\ hints.transaction_nature = "reimbursement_paid"
    /\ hints.hints = [ show_category |-> TRUE, require_counterparty |-> TRUE,
                       require_both_accounts |-> FALSE,
                       affects_net_worth |-> TRUE ]

\* C29: every result of classify, whether from a description pattern, from
\* the account-type heuristic or from the sign fallback, has a (type, nature)
\* pair is_valid_nature_for_type accepts; and the nature of every result of
\* the account-type heuristic passes the class-pair rule of validation on the
\* two account types that produced it.
C29_ClassifierResultsValid ==
    (pc = "classified" /\ ~classified.raised) =>
        /\ is_valid_nature_for_type(classified.transaction_type,
                                    classified.transaction_nature)
        /\ classified.reasoning = "accounts" =>
              check_account_type_movements(TransactionInput(
                  classified.transaction_type, classified.transaction_nature,
                  classify_in.amount, 1, 2,
                  classify_in.from_account_type, classify_in.to_account_type,
                  NoneStr, NoneStr)) = <<>>

\* a description no pattern matches, paid from a savings account into a
\* payable: the heuristic answers a loan repayment
C29_Witness ==
    /\ pc = "classified"
    /\ classify_in.description = "coffee"
    /\ classify_in.from_account_type = "savings"
    /\ classify_in.to_account_type = "payable"
    /\ classified.reasoning = "accounts"
    /\ classified.transaction_nature = "loan_repaid"

(* ---------------------------------------------------------------------- *)
(* Properties of two concurrent requests (specification RaceSpec)         *)
(* ---------------------------------------------------------------------- *)

BothCommitted ==
    \A s \in Sessions :
        sessions[s].pc \in {"committed", "closed"} /\ sessions[s].status = 201

\* C28: when two concurrent requests on the same accounts have both
\* committed, the stored balance of every account they share reflects both
\* amounts: it is the balance of running the two requests one after the
\* other, in either order.
C28_NoLostUpdate ==
    BothCommitted =>
        \A id \in DOMAIN sessions[1].balances \cap DOMAIN sessions[2].balances :
            /\ accounts[id].balance =
                  BalancesAfter(ZeroBalances(accounts),
                                << sessions[1].row, sessions[2].row >>)[id].balance
            /\ accounts[id].balance =
                  BalancesAfter(ZeroBalances(accounts),
                                << sessions[2].row, sessions[1].row >>)[id].balance

(* ---------------------------------------------------------------------- *)
(* Properties of the migration (specification MigrateSpec)                *)
(* ---------------------------------------------------------------------- *)

\* C30: the classification step of migrate() gives every non-deleted row of
\* type income, expense or transfer that had no nature a nature that
\* is_valid_nature_for_type accepts for its type, whatever the classifier
\* suggested and with or without an account_id.
C30_MigratedNaturesValid ==
    [][ (pc = "accounts" /\ pc' = "natures") =>
          \A k \in 1..Len(transactions) :
              (/\ ~transactions[k].is_deleted
               /\ transactions[k].transaction_type \in TransactionType
               /\ ~TruthyStr(transactions[k].transaction_nature)) =>
                  is_valid_nature_for_type(transactions'[k].transaction_type,
                                           transactions'[k].transaction_nature)
      ]_vars

(* ---------------------------------------------------------------------- *)
(* Properties of the helpers (specification HelperSpec)                   *)
(* ---------------------------------------------------------------------- *)

\* the rearrangements of a list of n entries
PermsOfLength ==
    [ n \in 0..MaxEntries |->
        { p \in [1..n -> 1..n] : \A i, j \in 1..n : p[i] = p[j] => i = j } ]
Perms(n) == PermsOfLength[n]
Permuted(s, p) == [i \in 1..Len(s) |-> s[p[i]]]

\* the balance the claim describes: the float totals of the matching entries,
\* taken in list order, subtracted according to the class
ClassBalance(es, id, class) ==
    LET own == SelectSeq(es, LAMBDA e : e.account_id = id)
        total_debit == PySum(Debits(own))
        total_credit == PySum(Credits(own))
    IN  IF class \in {"asset", "receivable"}
        THEN FSub(total_debit, total_credit)
        ELSE FSub(total_credit, total_debit)

\* C12 as stated: the balance is total debit minus total credit for Asset and
\* Receivable and total credit minus total debit for Liability and Payable,
\* over exactly the entries whose account_id matches; entries of other
\* accounts and the order of the entries do not change the result.
C12_BalanceOrderIndependent ==
    pc = "balanced" =>
        /\ balance = ClassBalance(entry_list, account_id, acct_class)
        /\ balance = account_balance_from_entries(
                        EntriesOf(entry_list, account_id), account_id, acct_class)
        /\ \A p \in Perms(Len(entry_list)) :
              account_balance_from_entries(Permuted(entry_list, p),
                                           account_id, acct_class) = balance

\* C12 amended: the same balance over exactly the matching entries; entries of
\* other accounts do not change the result, and neither does the order of the
\* entries whenever the float totals carry no rounding error in either order.
C12_BalanceOrderIndependentExactTotals ==
    pc = "balanced" =>
        /\ balance = ClassBalance(entry_list, account_id, acct_class)
        /\ balance = account_balance_from_entries(
                        EntriesOf(entry_list, account_id), account_id, acct_class)
        /\ ExactTotals(entry_list, account_id) =>
              \A p \in Perms(Len(entry_list)) :
                 ExactTotals(Permuted(entry_list, p), account_id) =>
                    account_balance_from_entries(Permuted(entry_list, p),
                                                 account_id, acct_class) = balance

\* a liability's balance over a debit and a larger credit of its own, with an
\* entry of the other account in between, every total exact
C12_Witness ==
    /\ pc = "balanced"
    /\ acct_class = "liability"
    /\ account_id = 1
    /\ entry_list = << LedgerEntryDTO(41, 1, 1, 0),
                       LedgerEntryDTO(41, 2, Mant, 0),
                       LedgerEntryDTO(41, 1, 0, Mant) >>
    /\ balance = Mant - 1
    /\ \A p \in Perms(3) : ExactTotals(Permuted(entry_list, p), 1)

\* C18: infer_accounting_type is a total function of the label: 'credit_card'
\* and 'overdraft' give Liability, 'receivable' Receivable, 'payable' Payable,
\* every other label of the table Asset, and a label the table does not hold
\* gives Asset without failing.
C18_InferAccountingType ==
    pc \in {"inferred", "balanced"} =>
        /\ acct_class \in AccountingType
        /\ account_type \in {"credit_card", "overdraft"} => acct_class = "liability"
        /\ account_type = "receivable" => acct_class = "receivable"
        /\ account_type = "payable" => acct_class = "payable"
        /\ account_type \notin {"credit_card", "overdraft", "receivable", "payable"}
              => acct_class = "asset"

\* a string the table does not hold, differing from a key only by case, was
\* given the default class
C18_Witness ==
    /\ pc = "inferred"
    /\ account_type = "CREDIT_CARD"
    /\ account_type \notin TableLabels
    /\ acct_class = "asset"

====
